---- MODULE Spec2Model ----
(***************************************************************************)
(* The Mandrill toolchain: code generator, bytecode writer and loader, the *)
(* stack virtual machine and the tree-walking interpreter.                 *)
(***************************************************************************)
EXTENDS Integers, Sequences, FiniteSets, TLC

(***************************************************************************)
(* Integers                                                                *)
(***************************************************************************)
\* Python's int is unbounded; TLC's Int is 32 bits wide.  An integer of the
\* program is a sign and a magnitude: a little-endian sequence of limbs in
\* base Base with no leading zero limb (so that equal numbers are equal values).
Base == 2^15

Zero == [neg |-> FALSE, mag |-> <<>>]

RECURSIVE MagNorm(_)
MagNorm(m) ==
    IF m = <<>> THEN <<>>
    ELSE IF m[Len(m)] = 0 THEN MagNorm(SubSeq(m, 1, Len(m) - 1)) ELSE m

RECURSIVE MagOfNat(_)
MagOfNat(n) == IF n = 0 THEN <<>> ELSE <<n % Base>> \o MagOfNat(n \div Base)

Big(n) == IF n >= 0 THEN [neg |-> FALSE, mag |-> MagOfNat(n)]
                    ELSE [neg |-> TRUE, mag |-> MagOfNat(-n)]

RECURSIVE MagToNat(_)
MagToNat(m) == IF m = <<>> THEN 0 ELSE Head(m) + Base * MagToNat(Tail(m))

RECURSIVE MagCmpFrom(_, _, _)
MagCmpFrom(a, b, i) ==
    IF i = 0 THEN 0
    ELSE IF a[i] < b[i] THEN -1
    ELSE IF a[i] > b[i] THEN 1
    ELSE MagCmpFrom(a, b, i - 1)

MagCmp(a, b) ==
    IF Len(a) < Len(b) THEN -1
    ELSE IF Len(a) > Len(b) THEN 1
    ELSE MagCmpFrom(a, b, Len(a))

RECURSIVE MagAddC(_, _, _)
MagAddC(a, b, c) ==
    IF a = <<>> /\ b = <<>> THEN (IF c = 0 THEN <<>> ELSE <<c>>)
    ELSE LET x == IF a = <<>> THEN 0 ELSE Head(a)
             y == IF b = <<>> THEN 0 ELSE Head(b)
             s == x + y + c
         IN <<s % Base>> \o MagAddC(IF a = <<>> THEN a ELSE Tail(a),
                                    IF b = <<>> THEN b ELSE Tail(b), s \div Base)

MagAdd(a, b) == MagAddC(a, b, 0)

RECURSIVE MagSubB(_, _, _)
MagSubB(a, b, c) ==
    IF a = <<>> THEN <<>>
    ELSE LET y == IF b = <<>> THEN 0 ELSE Head(b)
             d == Head(a) - y - c
         IN <<IF d < 0 THEN d + Base ELSE d>>
            \o MagSubB(Tail(a), IF b = <<>> THEN b ELSE Tail(b), IF d < 0 THEN 1 ELSE 0)

\* a - b for a >= b
MagSub(a, b) == MagNorm(MagSubB(a, b, 0))

RECURSIVE MagMulSmallC(_, _, _)
MagMulSmallC(a, d, c) ==
    IF a = <<>> THEN (IF c = 0 THEN <<>> ELSE <<c>>)
    ELSE LET p == Head(a) * d + c
         IN <<p % Base>> \o MagMulSmallC(Tail(a), d, p \div Base)

RECURSIVE MagMul(_, _)
MagMul(a, b) ==
    IF a = <<>> \/ b = <<>> THEN <<>>
    ELSE LET rest == MagMul(a, Tail(b))
         IN MagAdd(MagNorm(MagMulSmallC(a, Head(b), 0)),
                   IF rest = <<>> THEN <<>> ELSE <<0>> \o rest)

\* the largest q in lo..hi with b * q <= r (b * lo <= r is given)
RECURSIVE MagQuotDigit(_, _, _, _)
MagQuotDigit(r, b, lo, hi) ==
    IF lo = hi THEN lo
    ELSE LET mid == (lo + hi + 1) \div 2
         IN IF MagCmp(MagNorm(MagMulSmallC(b, mid, 0)), r) <= 0
            THEN MagQuotDigit(r, b, mid, hi)
            ELSE MagQuotDigit(r, b, lo, mid - 1)

\* <<quotient, remainder>> of the limbs a[i..Len(a)] by b, b # 0: long division
RECURSIVE MagDivModAt(_, _, _)
MagDivModAt(a, b, i) ==
    IF i > Len(a) THEN <<<<>>, <<>>>>
    ELSE LET h == MagDivModAt(a, b, i + 1)
             r == MagNorm(<<a[i]>> \o h[2])
             d == IF Len(b) = 1 THEN MagToNat(r) \div b[1]
                  ELSE MagQuotDigit(r, b, 0, Base - 1)
         IN <<MagNorm(<<d>> \o h[1]), MagSub(r, MagNorm(MagMulSmallC(b, d, 0)))>>

MagDivMod(a, b) == MagDivModAt(a, b, 1)

Signed(neg, m) == [neg |-> neg /\ m # <<>>, mag |-> m]

BigNeg(a) == Signed(~a.neg, a.mag)

BigAdd(a, b) ==
    IF a.neg = b.neg THEN Signed(a.neg, MagAdd(a.mag, b.mag))
    ELSE IF MagCmp(a.mag, b.mag) >= 0 THEN Signed(a.neg, MagSub(a.mag, b.mag))
    ELSE Signed(b.neg, MagSub(b.mag, a.mag))

BigSub(a, b) == BigAdd(a, BigNeg(b))

BigMul(a, b) == Signed(a.neg # b.neg, MagMul(a.mag, b.mag))

BigCmp(a, b) ==
    IF a.neg # b.neg THEN (IF a.neg THEN -1 ELSE 1)
    ELSE IF a.neg THEN MagCmp(b.mag, a.mag) ELSE MagCmp(a.mag, b.mag)

BigLt(a, b) == BigCmp(a, b) < 0
BigLe(a, b) == BigCmp(a, b) <= 0

\* Python's //: the floor of the quotient
BigFloorDiv(a, b) ==
    LET h == MagDivMod(a.mag, b.mag)
    IN IF a.neg = b.neg THEN Signed(FALSE, h[1])
       ELSE IF h[2] = <<>> THEN Signed(TRUE, h[1])
       ELSE Signed(TRUE, MagAdd(h[1], <<1>>))

\* Python's %: the remainder has the divisor's sign
BigMod(a, b) ==
    LET h == MagDivMod(a.mag, b.mag)
    IN IF h[2] = <<>> THEN Zero
       ELSE IF a.neg = b.neg THEN Signed(b.neg, h[2])
       ELSE Signed(b.neg, MagSub(b.mag, h[2]))

IntOf(a) == IF a.neg THEN -MagToNat(a.mag) ELSE MagToNat(a.mag)

(***************************************************************************)
(* Text: a string is the sequence of its characters' code points           *)
(***************************************************************************)
\* str.isspace() on the ASCII range
IsSpace(c) == c \in {9, 10, 11, 12, 13, 28, 29, 30, 31, 32}

IsDigit(c) == c >= 48 /\ c <= 57

\* The first position from i on (from 0) whose character fails the test
RECURSIVE SkipSpaces(_, _)
SkipSpaces(text, i) ==
    IF i < Len(text) /\ IsSpace(text[i + 1]) THEN SkipSpaces(text, i + 1) ELSE i

RECURSIVE SkipDigits(_, _)
SkipDigits(text, i) ==
    IF i < Len(text) /\ IsDigit(text[i + 1]) THEN SkipDigits(text, i + 1) ELSE i

\* str.split(): the maximal runs of non-whitespace characters
RECURSIVE SplitFrom(_, _, _)
SplitFrom(text, i, tok) ==
    IF i > Len(text) THEN (IF tok = <<>> THEN <<>> ELSE <<tok>>)
    ELSE IF IsSpace(text[i])
         THEN (IF tok = <<>> THEN <<>> ELSE <<tok>>) \o SplitFrom(text, i + 1, <<>>)
         ELSE SplitFrom(text, i + 1, Append(tok, text[i]))

Split(text) == SplitFrom(text, 1, <<>>)

\* int(token) succeeds: an optional sign and at least one decimal digit
IsIntToken(tok) ==
    LET digits == IF tok # <<>> /\ tok[1] \in {43, 45} THEN Tail(tok) ELSE tok
    IN digits # <<>> /\ \A i \in 1..Len(digits) : IsDigit(digits[i])

RECURSIVE DigitsValue(_, _)
DigitsValue(digits, acc) ==
    IF digits = <<>> THEN acc
    ELSE DigitsValue(Tail(digits), BigAdd(BigMul(acc, Big(10)), Big(Head(digits) - 48)))

\* int(token) for a token that IsIntToken
ParseInt(tok) ==
    IF tok[1] = 45 THEN BigNeg(DigitsValue(Tail(tok), Zero))
    ELSE IF tok[1] = 43 THEN DigitsValue(Tail(tok), Zero)
    ELSE DigitsValue(tok, Zero)

RECURSIVE MagDecimal(_)
MagDecimal(m) ==
    IF m = <<>> THEN <<>>
    ELSE LET h == MagDivMod(m, <<10>>)
         IN Append(MagDecimal(h[1]), 48 + MagToNat(h[2]))

\* str(n), as print writes it
Decimal(n) ==
    IF n.mag = <<>> THEN <<48>>
    ELSE IF n.neg THEN <<45>> \o MagDecimal(n.mag) ELSE MagDecimal(n.mag)

(***************************************************************************)
(* Opcodes, EVAL operands and the VM's constants                           *)
(***************************************************************************)
NOP == 0
DSTORE == 1
DLOAD == 2
DWRITE == 3
EVAL == 5
JUMP == 6
GETI == 7
GETC == 8
PUTI == 9
PUTC == 10

OP_ADD == 65537
OP_SUB == 65538
OP_MUL == 65539
OP_DIV == 65540
OP_MOD == 65541
OP_GT == 65542
OP_LT == 65543
OP_GE == 65544
OP_LE == 65545
OP_EQ == 65546
OP_NE == 65547
OP_COND_JUMP == 65548

INT32_MAX == Big(2147483647)
INT32_MIN == BigSub(Big(-2147483647), Big(1))
UINT32_MAX == BigMul(Big(65536), Big(65536))

\* 0xFFFFFFFF, the operand of the JUMP that ends the program
HALT == BigSub(UINT32_MAX, Big(1))

\* an instruction is the pair (opcode, operand)
Ins(opcode, operand) == <<Big(opcode), operand>>

None == "None"

(***************************************************************************)
(* State                                                                   *)
(***************************************************************************)
VARIABLES
    ast,            \* the program handed to the compiler and to the interpreter
    instructions,   \* CodeGenerator.instructions
    var_count,      \* CodeGenerator.var_count
    compile_status, \* "source", "parsed", "generated", "written", "error", or "none"
    file,           \* the bytes of the bytecode file, None before it exists
    all_input,      \* the text on the VM's standard input
    stack,          \* MandrillVM.stack
    variables,      \* MandrillVM.variables
    code,           \* MandrillVM.code
    pc,             \* MandrillVM.pc
    input_tokens,   \* MandrillVM.input_tokens
    input_pos,      \* MandrillVM.input_pos
    input_chars,    \* MandrillVM.input_chars
    char_pos,       \* MandrillVM.char_pos
    output,         \* what the VM has written to standard output
    status,         \* "none", "created", "loaded", "running", "halted", "exited", "error"
    error,          \* the exception that ended the VM, "" when none
    interp_status,  \* "idle", "done", "running" (the loop budget ran out)
    interp_output,  \* what the interpreter has written to standard output
    trunc_value,    \* an integer handed to _to_32bit_int
    trunc_result,   \* what _to_32bit_int returned, None before the first call
    trunc_calls,    \* how many times _to_32bit_int has been applied to it
    source,         \* the source text on the standard input of the tools
    tokens,         \* what Lexer.tokenize returned, None before it ran
    check_status,   \* the syntax checker: "idle", "exit 0" or "exit 1"
    check_output    \* what the syntax checker has written to standard output

compilerVars == <<ast, instructions, var_count, compile_status>>
vmVars == <<stack, variables, code, pc, input_tokens, input_pos, input_chars,
            char_pos, output, status, error>>
interpVars == <<interp_status, interp_output>>
truncVars == <<trunc_value, trunc_result, trunc_calls>>
sourceVars == <<source, tokens, check_status, check_output>>
vars == <<compilerVars, file, all_input, sourceVars, vmVars, interpVars, truncVars>>

(***************************************************************************)
(* The virtual machine (vm.py)                                             *)
(***************************************************************************)
\* MandrillVM.__init__ and _preload_input
NewVM ==
    /\ status = "none"
    /\ stack' = <<>>
    /\ variables' = <<>>
    /\ code' = <<>>
    /\ pc' = Zero
    /\ input_tokens' = Split(all_input)
    /\ input_pos' = 0
    /\ input_chars' = all_input
    /\ char_pos' = 0
    /\ output' = <<>>
    /\ status' = "created"
    /\ error' = ""
    /\ UNCHANGED <<compilerVars, file, all_input, sourceVars, interpVars, truncVars>>

\* _get_next_int from token position pos: <<value, new input_pos>>
RECURSIVE get_next_int(_)
get_next_int(pos) ==
    IF pos < Len(input_tokens)
    THEN LET token == input_tokens[pos + 1]
         IN IF IsIntToken(token) THEN <<ParseInt(token), pos + 1>>
            ELSE get_next_int(pos + 1)
    ELSE <<Zero, pos>>

\* _get_next_char from character position pos: <<value, new char_pos>>
get_next_char(pos) ==
    IF pos < Len(input_chars) THEN <<Big(input_chars[pos + 1]), pos + 1>>
    ELSE <<Zero, pos>>

\* to_32bit_int without the "+ 1" of its wrap
to_32bit_int_off_by_one(value) ==
    IF BigLe(INT32_MIN, value) /\ BigLe(value, INT32_MAX) THEN value
    ELSE BigAdd(BigMod(BigAdd(value, INT32_MAX), UINT32_MAX), INT32_MIN)

to_32bit_int(value) ==
    IF BigLe(INT32_MIN, value) /\ BigLe(value, INT32_MAX) THEN value
    ELSE BigAdd(BigMod(BigAdd(BigAdd(value, INT32_MAX), Big(1)), UINT32_MAX), INT32_MIN)

\* The position (from 1) that Python's list[i] addresses in a list of n
\* elements, 0 when it raises IndexError
PyIndex(i, n) ==
    IF ~i.neg /\ BigLt(i, Big(n)) THEN IntOf(i) + 1
    ELSE IF i.neg /\ BigLe(Big(-n), i) THEN n + IntOf(i) + 1
    ELSE 0

\* The fields of the VM that run() changes
Machine ==
    [stack |-> stack, variables |-> variables, pc |-> pc, input_pos |-> input_pos,
     char_pos |-> char_pos, output |-> output, status |-> status, error |-> error]

Raise(m, e) == [m EXCEPT !.status = "error", !.error = e]

Push(m, value) == [m EXCEPT !.stack = Append(m.stack, value)]

\* del stack[-k:]
Drop(m, k) == [m EXCEPT !.stack = SubSeq(m.stack, 1, Len(m.stack) - k)]

\* stack[-k]
Peek(m, k) == m.stack[Len(m.stack) + 1 - k]

handle_nop(m, operand) == m

handle_dstore(m, operand) == Push(m, operand)

handle_dload(m, operand) ==
    LET i == PyIndex(operand, Len(m.variables))
    IN IF i = 0 THEN Raise(m, "IndexError") ELSE Push(m, m.variables[i])

\* handle_dwrite storing the value as it finds it on the stack
handle_dwrite_untruncated(m, operand) ==
    IF m.stack = <<>> THEN Raise(m, "IndexError")
    ELSE LET value == Peek(m, 1)
             popped == Drop(m, 1)
             i == PyIndex(operand, Len(m.variables))
         IN IF i = 0 THEN Raise(popped, "IndexError")
            ELSE [popped EXCEPT !.variables[i] = value]

handle_dwrite(m, operand) ==
    IF m.stack = <<>> THEN Raise(m, "IndexError")
    ELSE LET value == Peek(m, 1)
             popped == Drop(m, 1)
             i == PyIndex(operand, Len(m.variables))
         IN IF i = 0 THEN Raise(popped, "IndexError")
            ELSE [popped EXCEPT !.variables[i] = to_32bit_int(value)]

\* The binary operations of execute_eval_optimized: the result, or the
\* exception raised
Result(value) == [raised |-> "", value |-> value]
Raised(e) == [raised |-> e, value |-> Zero]
Bool(b) == IF b THEN Big(1) ELSE Zero

\* eval_mul whose short cut for a left operand of 1 answers that operand
eval_mul_left_one(left, right) ==
    IF left = Zero \/ right = Zero THEN Result(Zero)
    ELSE IF left = Big(1) THEN Result(left)
    ELSE IF right = Big(1) THEN Result(left)
    ELSE Result(BigMul(left, right))

eval_mul(left, right) ==
    IF left = Zero \/ right = Zero THEN Result(Zero)
    ELSE IF left = Big(1) THEN Result(right)
    ELSE IF right = Big(1) THEN Result(left)
    ELSE Result(BigMul(left, right))

\* eval_add truncating its sum to 32 bits
eval_add_truncating(left, right) == Result(to_32bit_int(BigAdd(left, right)))

eval_add(left, right) == Result(BigAdd(left, right))

eval_sub(left, right) == Result(to_32bit_int(BigSub(left, right)))

\* eval_div answering 0 for a zero divisor, as the interpreter does
eval_div_zero_quotient(left, right) ==
    IF right = Zero THEN Result(Zero)
    ELSE Result(to_32bit_int(BigFloorDiv(left, right)))

\* eval_div rounding the quotient toward zero
eval_div_toward_zero(left, right) ==
    IF right = Zero THEN Raised("Division by zero")
    ELSE Result(to_32bit_int(Signed(left.neg # right.neg, MagDivMod(left.mag, right.mag)[1])))

eval_div(left, right) ==
    IF right = Zero THEN Raised("Division by zero")
    ELSE Result(to_32bit_int(BigFloorDiv(left, right)))

eval_mod(left, right) ==
    IF right = Zero THEN Raised("Division by zero")
    ELSE LET mod_result == BigMod(left, right)
         IN Result(to_32bit_int(IF BigLt(Zero, right) /\ BigLt(mod_result, Zero)
                                THEN BigAdd(mod_result, right) ELSE mod_result))

eval_binary(operand, left, right) ==
    IF operand = Big(OP_MUL) THEN eval_mul(left, right)
    ELSE IF operand = Big(OP_ADD) THEN eval_add(left, right)
    ELSE IF operand = Big(OP_SUB) THEN eval_sub(left, right)
    ELSE IF operand = Big(OP_DIV) THEN eval_div(left, right)
    ELSE IF operand = Big(OP_MOD) THEN eval_mod(left, right)
    ELSE IF operand = Big(OP_EQ) THEN Result(Bool(left = right))
    ELSE IF operand = Big(OP_NE) THEN Result(Bool(left # right))
    ELSE IF operand = Big(OP_GT) THEN Result(Bool(BigLt(right, left)))
    ELSE IF operand = Big(OP_LT) THEN Result(Bool(BigLt(left, right)))
    ELSE IF operand = Big(OP_GE) THEN Result(Bool(BigLe(right, left)))
    ELSE IF operand = Big(OP_LE) THEN Result(Bool(BigLe(left, right)))
    ELSE Raised("Unknown eval operand")

\* execute_eval_optimized taking the top of the stack for the then-address
execute_eval_optimized_then_on_top(m, operand) ==
    IF operand = Big(OP_COND_JUMP)
    THEN IF Len(m.stack) < 3 THEN Raise(m, "IndexError")
         ELSE LET then_addr == Peek(m, 1)
                  else_addr == Peek(m, 2)
                  condition == Peek(m, 3)
                  target == IF condition # Zero THEN BigFloorDiv(then_addr, Big(8))
                                                ELSE BigFloorDiv(else_addr, Big(8))
              IN [Drop(m, 3) EXCEPT !.pc = BigSub(target, Big(1))]
    ELSE IF Len(m.stack) < 2 THEN Raise(m, "IndexError")
         ELSE LET right == Peek(m, 1)
                  left == Peek(m, 2)
                  popped == Drop(m, 2)
                  r == eval_binary(operand, left, right)
              IN IF r.raised # "" THEN Raise(popped, r.raised)
                 ELSE Push(popped, r.value)

execute_eval_optimized(m, operand) ==
    IF operand = Big(OP_COND_JUMP)
    THEN IF Len(m.stack) < 3 THEN Raise(m, "IndexError")
         ELSE LET else_addr == Peek(m, 1)
                  then_addr == Peek(m, 2)
                  condition == Peek(m, 3)
                  target == IF condition # Zero THEN BigFloorDiv(then_addr, Big(8))
                                                ELSE BigFloorDiv(else_addr, Big(8))
              IN [Drop(m, 3) EXCEPT !.pc = BigSub(target, Big(1))]
    ELSE IF Len(m.stack) < 2 THEN Raise(m, "IndexError")
         ELSE LET right == Peek(m, 1)
                  left == Peek(m, 2)
                  popped == Drop(m, 2)
                  r == eval_binary(operand, left, right)
              IN IF r.raised # "" THEN Raise(popped, r.raised)
                 ELSE Push(popped, r.value)

\* The binary operations of execute_eval, which multiplies without the short
\* cuts of execute_eval_optimized
execute_eval_binary(operand, left, right) ==
    IF operand = Big(OP_ADD) THEN eval_add(left, right)
    ELSE IF operand = Big(OP_SUB) THEN eval_sub(left, right)
    ELSE IF operand = Big(OP_MUL) THEN Result(BigMul(left, right))
    ELSE IF operand = Big(OP_DIV) THEN eval_div(left, right)
    ELSE IF operand = Big(OP_MOD) THEN eval_mod(left, right)
    ELSE IF operand = Big(OP_GT) THEN Result(Bool(BigLt(right, left)))
    ELSE IF operand = Big(OP_LT) THEN Result(Bool(BigLt(left, right)))
    ELSE IF operand = Big(OP_GE) THEN Result(Bool(BigLe(right, left)))
    ELSE IF operand = Big(OP_LE) THEN Result(Bool(BigLe(left, right)))
    ELSE IF operand = Big(OP_EQ) THEN Result(Bool(left = right))
    ELSE IF operand = Big(OP_NE) THEN Result(Bool(left # right))
    ELSE Raised("Unknown eval operand")

\* execute_eval, which run() does not call: it tests the length of the stack
\* and then pops the operands one by one
execute_eval(m, operand) ==
    IF operand = Big(OP_COND_JUMP)
    THEN IF Len(m.stack) < 3 THEN Raise(m, "Stack underflow in conditional jump")
         ELSE LET else_addr == Peek(m, 1)
                  then_addr == Peek(m, 2)
                  condition == Peek(m, 3)
                  target == IF condition # Zero THEN BigFloorDiv(then_addr, Big(8))
                                                ELSE BigFloorDiv(else_addr, Big(8))
              IN [Drop(m, 3) EXCEPT !.pc = BigSub(target, Big(1))]
    ELSE IF Len(m.stack) < 2 THEN Raise(m, "Stack underflow in binary operation")
         ELSE LET right == Peek(m, 1)
                  left == Peek(m, 2)
                  popped == Drop(m, 2)
                  r == execute_eval_binary(operand, left, right)
              IN IF r.raised # "" THEN Raise(popped, r.raised)
                 ELSE Push(popped, r.value)

handle_eval(m, operand) == execute_eval_optimized(m, operand)

handle_jump(m, operand) ==
    IF operand = HALT THEN [m EXCEPT !.status = "halted"]
    ELSE [m EXCEPT !.pc = BigSub(BigFloorDiv(operand, Big(8)), Big(1))]

\* handle_geti moving the character cursor past what it read as well
handle_geti_moving_char_pos(m, operand) ==
    LET r == get_next_int(m.input_pos)
        c == get_next_char(m.char_pos)
    IN [Push(m, r[1]) EXCEPT !.input_pos = r[2], !.char_pos = c[2]]

handle_geti(m, operand) ==
    LET r == get_next_int(m.input_pos)
    IN [Push(m, r[1]) EXCEPT !.input_pos = r[2]]

handle_getc(m, operand) ==
    LET r == get_next_char(m.char_pos)
    IN [Push(m, r[1]) EXCEPT !.char_pos = r[2]]

\* handle_puti taking an empty stack for nothing to print
handle_puti_on_empty_stack(m, operand) ==
    IF m.stack = <<>> THEN m
    ELSE [Drop(m, 1) EXCEPT !.output = m.output \o Decimal(to_32bit_int(Peek(m, 1)))]

handle_puti(m, operand) ==
    IF m.stack = <<>> THEN Raise(m, "IndexError")
    ELSE [Drop(m, 1) EXCEPT !.output = m.output \o Decimal(to_32bit_int(Peek(m, 1)))]

\* handle_putc writing every byte value
handle_putc_byte(m, operand) ==
    IF m.stack = <<>> THEN Raise(m, "IndexError")
    ELSE LET value == to_32bit_int(Peek(m, 1))
         IN IF BigLe(Zero, value) /\ BigLe(value, Big(255))
            THEN [Drop(m, 1) EXCEPT !.output = Append(m.output, IntOf(value))]
            ELSE Drop(m, 1)

handle_putc(m, operand) ==
    IF m.stack = <<>> THEN Raise(m, "IndexError")
    ELSE LET value == to_32bit_int(Peek(m, 1))
         IN IF BigLe(Zero, value) /\ BigLe(value, Big(127))
            THEN [Drop(m, 1) EXCEPT !.output = Append(m.output, IntOf(value))]
            ELSE Drop(m, 1)

\* instruction_handlers and the dispatch on the opcode
instruction_handlers(m, opcode, operand) ==
    IF opcode = Big(NOP) THEN handle_nop(m, operand)
    ELSE IF opcode = Big(DSTORE) THEN handle_dstore(m, operand)
    ELSE IF opcode = Big(DLOAD) THEN handle_dload(m, operand)
    ELSE IF opcode = Big(DWRITE) THEN handle_dwrite(m, operand)
    ELSE IF opcode = Big(EVAL) THEN handle_eval(m, operand)
    ELSE IF opcode = Big(JUMP) THEN handle_jump(m, operand)
    ELSE IF opcode = Big(GETI) THEN handle_geti(m, operand)
    ELSE IF opcode = Big(GETC) THEN handle_getc(m, operand)
    ELSE IF opcode = Big(PUTI) THEN handle_puti(m, operand)
    ELSE IF opcode = Big(PUTC) THEN handle_putc(m, operand)
    ELSE Raise(m, "Unknown opcode")

\* One evaluation of the main loop's condition and, when it holds, one
\* iteration: fetch, dispatch, pc += 1
run_iteration(m) ==
    IF ~BigLt(m.pc, Big(Len(code))) THEN [m EXCEPT !.status = "exited"]
    ELSE LET i == PyIndex(m.pc, Len(code))
         IN IF i = 0 THEN Raise(m, "IndexError")
            ELSE LET r == instruction_handlers(m, code[i][1], code[i][2])
                 IN IF r.status # "running" THEN r
                    ELSE [r EXCEPT !.pc = BigAdd(r.pc, Big(1))]

SetMachine(m) ==
    /\ stack' = m.stack
    /\ variables' = m.variables
    /\ pc' = m.pc
    /\ input_pos' = m.input_pos
    /\ char_pos' = m.char_pos
    /\ output' = m.output
    /\ status' = m.status
    /\ error' = m.error

MaxOutput == 16

\* run(): the statements before the main loop
Run ==
    /\ status = "loaded"
    /\ SetMachine([Machine EXCEPT !.pc = Zero, !.status = "running"])
    /\ UNCHANGED <<compilerVars, file, all_input, sourceVars, code, input_tokens, input_chars,
                   interpVars, truncVars>>

\* One turn of run()'s main loop, for as long as the output is within MaxOutput
Step ==
    /\ status = "running"
    /\ Len(output) <= MaxOutput
    /\ SetMachine(run_iteration(Machine))
    /\ UNCHANGED <<compilerVars, file, all_input, sourceVars, code, input_tokens, input_chars,
                   interpVars, truncVars>>

(***************************************************************************)
(* The bytecode container: writer (compiler.py) and loader (vm.py)         *)
(***************************************************************************)
\* b"MANDRILLBYTECODE"
Magic == <<77, 65, 78, 68, 82, 73, 76, 76, 66, 89, 84, 69, 67, 79, 68, 69>>

IsU32(x) == BigLe(Zero, x) /\ BigLt(x, UINT32_MAX)

\* pack_I with the least significant byte first
pack_I_little_endian(x) ==
    LET hi == IntOf(BigFloorDiv(x, Big(65536)))
        lo == IntOf(BigMod(x, Big(65536)))
    IN <<lo % 256, lo \div 256, hi % 256, hi \div 256>>

\* struct.pack(">I", x) for a u32 x: four bytes, the most significant first
pack_I(x) ==
    LET hi == IntOf(BigFloorDiv(x, Big(65536)))
        lo == IntOf(BigMod(x, Big(65536)))
    IN <<hi \div 256, hi % 256, lo \div 256, lo % 256>>

\* struct.unpack(">I", b)[0] for four bytes b
unpack_I(b) == BigAdd(BigMul(Big(b[1] * 256 + b[2]), Big(65536)), Big(b[3] * 256 + b[4]))

RECURSIVE pack_code(_)
pack_code(ins) ==
    IF ins = <<>> THEN <<>>
    ELSE pack_I(Head(ins)[1]) \o pack_I(Head(ins)[2]) \o pack_code(Tail(ins))

\* BytecodeWriter.write_bytecode: the bytes, or None when struct.pack raises
write_bytecode(ins, n) ==
    LET data_size == BigMul(Big(n), Big(4))
        code_size == BigMul(Big(Len(ins)), Big(8))
    IN IF ~IsU32(data_size) \/ ~IsU32(code_size)
          \/ \E i \in 1..Len(ins) : ~IsU32(ins[i][1]) \/ ~IsU32(ins[i][2])
       THEN None
       ELSE Magic \o pack_I(Big(1)) \o pack_I(data_size) \o pack_I(code_size)
            \o <<0, 0, 0, 0>> \o pack_code(ins)

\* main() of compiler.py from the generated instructions on: serialise, then
\* write the bytes to standard output
WriteBytecode ==
    /\ compile_status = "generated"
    /\ LET bytecode == write_bytecode(instructions, var_count)
       IN IF bytecode = None
          THEN compile_status' = "error" /\ file' = file
          ELSE compile_status' = "written" /\ file' = bytecode
    /\ UNCHANGED <<ast, instructions, var_count, all_input, sourceVars, vmVars, interpVars, truncVars>>

\* f.read(n) at offset pos (from 0): at most n bytes, fewer at the end
ReadAt(f, pos, n) ==
    IF pos >= Len(f) THEN <<>>
    ELSE SubSeq(f, pos + 1, IF pos + n > Len(f) THEN Len(f) ELSE pos + n)

Zeros(n) == [i \in 1..n |-> Zero]

\* MandrillVM.load_bytecode: the fields it leaves and the exception it raises
Loaded(vs, cd, e) == [variables |-> vs, code |-> cd, error |-> e]


load_bytecode(f) ==
    IF ReadAt(f, 0, 16) # Magic
    THEN Loaded(<<>>, <<>>, "Invalid bytecode file: wrong magic number")
    ELSE IF Len(ReadAt(f, 16, 4)) < 4 THEN Loaded(<<>>, <<>>, "struct.error")
    ELSE IF unpack_I(ReadAt(f, 16, 4)) # Big(1)
    THEN Loaded(<<>>, <<>>, "Unsupported bytecode version")
    ELSE IF Len(ReadAt(f, 20, 4)) < 4 \/ Len(ReadAt(f, 24, 4)) < 4
    THEN Loaded(<<>>, <<>>, "struct.error")
    ELSE LET data_size == unpack_I(ReadAt(f, 20, 4))
             code_size == unpack_I(ReadAt(f, 24, 4))
             count == IntOf(BigFloorDiv(data_size, Big(4)))
             rest == ReadAt(f, 32, Len(f))
             code_bytes == IF BigLt(code_size, Big(Len(rest)))
                           THEN SubSeq(rest, 1, IntOf(code_size)) ELSE rest
             instruction_count == IntOf(BigFloorDiv(code_size, Big(8)))
             whole == Len(code_bytes) \div 8
             decoded == [i \in 1..instruction_count |->
                           IF i <= whole
                           THEN <<unpack_I(SubSeq(code_bytes, 8 * i - 7, 8 * i - 4)),
                                  unpack_I(SubSeq(code_bytes, 8 * i - 3, 8 * i))>>
                           ELSE None]
         IN Loaded(Zeros(count), decoded,
                   IF whole < instruction_count THEN "struct.error" ELSE "")

LoadBytecode ==
    /\ status = "created"
    /\ file # None
    /\ LET r == load_bytecode(file)
       IN /\ variables' = r.variables
          /\ code' = r.code
          /\ error' = r.error
          /\ status' = IF r.error = "" THEN "loaded" ELSE "error"
    /\ UNCHANGED <<compilerVars, file, all_input, sourceVars, stack, pc, input_tokens, input_pos,
                   input_chars, char_pos, output, interpVars, truncVars>>

(***************************************************************************)
(* The VM on hand-assembled bytecode                                       *)
(***************************************************************************)
\* The most variable slots a hand-assembled container declares
MaxVars == 1

\* Operand values: the ends of the 32-bit range, values around zero, and
\* 2^32, which no 32-bit slot holds
Operands ==
    {Zero, Big(1), Big(-1), Big(3), Big(7), Big(-7), Big(1073741824),
     INT32_MAX, INT32_MIN, UINT32_MAX}

\* Values around the ends of the ASCII range, and 65 + 2^32
PutcValues ==
    {Big(65), Big(127), Big(128), Big(200), Big(-1), Zero, BigAdd(UINT32_MAX, Big(65))}

BinaryOps ==
    {OP_ADD, OP_SUB, OP_MUL, OP_DIV, OP_MOD, OP_GT, OP_LT, OP_GE, OP_LE, OP_EQ, OP_NE}

\* the text of the numbers, one space between two
RECURSIVE TextOf(_)
TextOf(numbers) ==
    IF numbers = <<>> THEN <<>>
    ELSE IF Len(numbers) = 1 THEN Decimal(numbers[1])
    ELSE Decimal(numbers[1]) \o <<32>> \o TextOf(Tail(numbers))

Halt == Ins(JUMP, HALT)

\* read two integers, apply one EVAL operand (one of them is unknown to the
\* VM), print the result
BinaryProgram(op) ==
    <<Ins(GETI, Zero), Ins(GETI, Zero), Ins(EVAL, Big(op)), Ins(PUTI, Zero), Halt>>

BinaryScenarios ==
    {<<BinaryProgram(op), TextOf(<<l, r>>)>> :
        op \in BinaryOps \cup {OP_COND_JUMP + 1}, l \in Operands, r \in Operands}

\* put = <input>; put = 'A';
PutcProgram ==
    <<Ins(GETI, Zero), Ins(PUTC, Zero), Ins(DSTORE, Big(65)), Ins(PUTC, Zero), Halt>>

PutcScenarios == {<<PutcProgram, TextOf(<<v>>)>> : v \in PutcValues}

\* write = (2^30 + 2^30) % 7;   and   write = 0 - 7; write = (0 - 7) % 3;
AddModProgram ==
    <<Ins(DSTORE, Big(1073741824)), Ins(DSTORE, Big(1073741824)), Ins(EVAL, Big(OP_ADD)),
      Ins(DSTORE, Big(7)), Ins(EVAL, Big(OP_MOD)), Ins(PUTI, Zero), Halt>>

SubModProgram ==
    <<Ins(DSTORE, Zero), Ins(DSTORE, Big(7)), Ins(EVAL, Big(OP_SUB)), Ins(PUTI, Zero),
      Ins(DSTORE, Zero), Ins(DSTORE, Big(7)), Ins(EVAL, Big(OP_SUB)),
      Ins(DSTORE, Big(3)), Ins(EVAL, Big(OP_MOD)), Ins(PUTI, Zero), Halt>>

\* a JUMP to each kind of target: an instruction, the end of the code, past
\* the end, an address that is no multiple of 8
JumpProgram(target) == <<Ins(JUMP, target), Ins(DSTORE, Big(1)), Ins(PUTI, Zero), Halt>>

JumpTargets == {Big(8), Big(12), Big(24), Big(32), Big(40), BigSub(HALT, Big(7))}

\* condition, then-address and else-address come from the input
CondJumpProgram ==
    <<Ins(GETI, Zero), Ins(GETI, Zero), Ins(GETI, Zero), Ins(EVAL, Big(OP_COND_JUMP)),
      Ins(DSTORE, Big(1)), Ins(PUTI, Zero), Halt>>

CondJumpScenarios ==
    {<<CondJumpProgram, TextOf(<<c, t, e>>)>> :
        c \in {Zero, Big(1)}, t \in {Big(40), Big(56), Big(-16)},
        e \in {Big(32), Big(-64), Big(4000)}}

\* code that ends without the halting JUMP
NoHaltPrograms == {<<>>, <<Ins(DSTORE, Big(1)), Ins(PUTI, Zero)>>}

\* c = get; put = c; then an opcode the VM does not know
OtherPrograms ==
    {<<Ins(GETC, Zero), Ins(DWRITE, Zero), Ins(NOP, Zero), Ins(DLOAD, Zero),
       Ins(PUTC, Zero), Halt>>,
     <<Ins(DSTORE, Big(5)), Ins(4, Zero), Halt>>}

\* k values on the stack, then an instruction that consumes values, then
\* write = 1
Consumers ==
    {Ins(DWRITE, Zero), Ins(PUTI, Zero), Ins(PUTC, Zero), Ins(EVAL, Big(OP_COND_JUMP))}
    \cup {Ins(EVAL, Big(op)) : op \in BinaryOps}

UnderflowProgram(k, consumer) ==
    [i \in 1..k |-> Ins(DSTORE, Big(8 * (k + 1)))]
    \o <<consumer, Ins(DSTORE, Big(1)), Ins(PUTI, Zero), Halt>>

UnderflowPrograms == {UnderflowProgram(k, c) : k \in 0..2, c \in Consumers}

Scenarios ==
    BinaryScenarios \cup PutcScenarios \cup CondJumpScenarios
    \cup {<<p, <<>>>> : p \in UnderflowPrograms}
    \cup {<<p, <<>>>> : p \in {AddModProgram, SubModProgram} \cup NoHaltPrograms
                              \cup {JumpProgram(t) : t \in JumpTargets}}
    \cup {<<p, <<97, 98>>>> : p \in OtherPrograms}

\* Containers no writer of this repository produced: every declared data and
\* code size up to a bound, over a code region cut short or whole
MaxDataSize == 6
MaxCodeSize == 24

Payload == pack_code(<<Ins(DSTORE, Big(1)), Ins(PUTI, Zero), Halt>>)

Container(magic, version, data_size, code_size, payload) ==
    magic \o pack_I(version) \o pack_I(data_size) \o pack_I(code_size)
    \o <<0, 0, 0, 0>> \o payload

ForeignFiles ==
    {Container(Magic, Big(1), Big(d), Big(c), SubSeq(Payload, 1, k)) :
        d \in 0..MaxDataSize, c \in 0..MaxCodeSize, k \in {12, 24}}
    \cup {Container(SubSeq(Magic, 1, 15) \o <<88>>, Big(1), Zero, Big(24), Payload),
          Container(Magic, Big(2), Zero, Big(24), Payload),
          SubSeq(Magic, 1, 10),
          Magic \o <<0, 0>>,
          SubSeq(Container(Magic, Big(1), Zero, Big(24), Payload), 1, 26)}

NoVM ==
    /\ stack = <<>>
    /\ variables = <<>>
    /\ code = <<>>
    /\ pc = Zero
    /\ input_tokens = <<>>
    /\ input_pos = 0
    /\ input_chars = <<>>
    /\ char_pos = 0
    /\ output = <<>>
    /\ status = "none"
    /\ error = ""

NoInterpreter == interp_status = "idle" /\ interp_output = <<>>

NoTruncation == trunc_value = Zero /\ trunc_result = None /\ trunc_calls = 0

\* The value of tokens before lexer.py has run
NotTokenized == [tokens |-> <<>>, error |-> "not run"]

NoSource == source = <<>> /\ tokens = NotTokenized /\ check_status = "idle" /\ check_output = ""

\* Either an instruction list ready to be serialised and the text the VM will
\* read, or a bytecode file of another origin
InitVM ==
    /\ \/ /\ \E sc \in Scenarios, n \in 0..MaxVars :
                /\ instructions = sc[1]
                /\ var_count = n
                /\ all_input = sc[2]
          /\ compile_status = "generated"
          /\ file = None
       \/ /\ file \in ForeignFiles
          /\ instructions = <<>>
          /\ var_count = 0
          /\ all_input = <<>>
          /\ compile_status = "none"
    /\ ast = None
    /\ NoVM
    /\ NoInterpreter
    /\ NoTruncation
    /\ NoSource

NextVM == WriteBytecode \/ NewVM \/ LoadBytecode \/ Run \/ Step

SpecVM == InitVM /\ [][NextVM]_vars

(***************************************************************************)
(* _to_32bit_int on its own                                                *)
(***************************************************************************)
\* The inputs lie within MaxWrap * 2^32 of zero
MaxWrap == 2

Pow31 == BigMul(Big(32768), Big(65536))
Pow32 == BigAdd(Pow31, Pow31)

\* Around every multiple of 2^31 in the range, and the operands of the VM runs
TruncInputs ==
    {BigAdd(BigMul(Big(k), Pow31), Big(d)) : k \in (-2 * MaxWrap)..(2 * MaxWrap), d \in -3..3}
    \cup Operands \cup PutcValues \cup {BigMul(Pow32, Pow32), BigNeg(BigMul(Pow32, Pow31))}

InitTrunc ==
    /\ trunc_value \in TruncInputs
    /\ trunc_result = None
    /\ trunc_calls = 0
    /\ ast = None /\ instructions = <<>> /\ var_count = 0 /\ compile_status = "none"
    /\ file = None
    /\ all_input = <<>>
    /\ NoVM
    /\ NoInterpreter
    /\ NoSource

Truncate ==
    /\ trunc_calls = 0
    /\ trunc_result' = to_32bit_int(trunc_value)
    /\ trunc_calls' = 1
    /\ UNCHANGED <<compilerVars, file, all_input, sourceVars, vmVars, interpVars, trunc_value>>

TruncateAgain ==
    /\ trunc_calls = 1
    /\ trunc_result' = to_32bit_int(trunc_result)
    /\ trunc_calls' = 2
    /\ UNCHANGED <<compilerVars, file, all_input, sourceVars, vmVars, interpVars, trunc_value>>

NextTrunc == Truncate \/ TruncateAgain

SpecTrunc == InitTrunc /\ [][NextTrunc]_vars

(***************************************************************************)
(* The syntax tree (compiler.py)                                           *)
(***************************************************************************)
Program(statements) == [type |-> "Program", statements |-> statements]

AssignmentStatement(lvalue, expression) ==
    [type |-> "AssignmentStatement", lvalue |-> lvalue, expression |-> expression]

\* else_statements is None when the statement has no else part
IfStatement(condition, then_statements, else_statements) ==
    [type |-> "IfStatement", condition |-> condition,
     then_statements |-> then_statements, else_statements |-> else_statements]

WhileStatement(condition, body_statements) ==
    [type |-> "WhileStatement", condition |-> condition,
     body_statements |-> body_statements]

BinaryOp(left, operator, right) ==
    [type |-> "BinaryOp", left |-> left, operator |-> operator, right |-> right]

Identifier(name) == [type |-> "Identifier", name |-> name]

\* value is the text of the LITERAL token: "0x" and hexadecimal digits
Literal(value) == [type |-> "Literal", value |-> value]

SpecialVar(name) == [type |-> "SpecialVar", name |-> name]

\* Python's truth value of a list or None
Truthy(list) == IF list = None THEN FALSE ELSE Len(list) > 0

\* format(value, "x"): the hexadecimal digits of a natural number
RECURSIVE MagHex(_)
MagHex(m) ==
    IF m = <<>> THEN <<>>
    ELSE LET h == MagDivMod(m, <<16>>)
             d == MagToNat(h[2])
         IN Append(MagHex(h[1]), IF d < 10 THEN 48 + d ELSE 87 + d)

\* The lexer's text of a number or character constant: f"0x{value:x}"
hex_value(value) == <<48, 120>> \o (IF value = Zero THEN <<48>> ELSE MagHex(value.mag))

HexDigit(c) == IF c >= 97 THEN c - 87 ELSE IF c >= 65 THEN c - 55 ELSE c - 48

RECURSIVE HexDigitsValue(_, _)
HexDigitsValue(digits, acc) ==
    IF digits = <<>> THEN acc
    ELSE HexDigitsValue(Tail(digits),
                        BigAdd(BigMul(acc, Big(16)), Big(HexDigit(Head(digits)))))

\* int(value, 16) for hexadecimal digits with an optional "0x" before them
int16(value) ==
    IF Len(value) >= 2 /\ value[1] = 48 /\ value[2] \in {88, 120}
    THEN HexDigitsValue(SubSeq(value, 3, Len(value)), Zero)
    ELSE HexDigitsValue(value, Zero)

(***************************************************************************)
(* The lexer (lexer.py)                                                    *)
(***************************************************************************)
\* The characters U+0020 to U+007E, each as a string (U+0060 by its number)
Ascii ==
    << " ", "!", "\"", "#", "$", "%", "&", "'", "(", ")", "*", "+", ",", "-", 
       ".", "/", "0", "1", "2", "3", "4", "5", "6", "7", "8", "9", ":", ";", 
       "<", "=", ">", "?", "@", "A", "B", "C", "D", "E", "F", "G", "H", "I", 
       "J", "K", "L", "M", "N", "O", "P", "Q", "R", "S", "T", "U", "V", "W", 
       "X", "Y", "Z", "[", "\\", "]", "^", "_", "\\x60", "a", "b", "c", "d", "e", 
       "f", "g", "h", "i", "j", "k", "l", "m", "n", "o", "p", "q", "r", "s", 
       "t", "u", "v", "w", "x", "y", "z", "{", "|", "}", "~" >>

\* The string of one character; a character outside Ascii stands as its number
Chr(c) == IF c >= 32 /\ c <= 126 THEN Ascii[c - 31] ELSE "\\x" \o ToString(c)

Ord(ch) == CHOOSE c \in 32..126 : Ascii[c - 31] = ch

\* The text spelled by a sequence of one-character strings
Src(chars) == [i \in 1..Len(chars) |-> Ord(chars[i])]

Token(type, value) == [type |-> type, value |-> value]

\* The None that get_next_token returns at the end of the source
NoToken == Token(None, None)

KEYWORDS == {"if", "else", "while", "read", "put", "write", "get"}

SINGLE_CHAR_OPS == {"+", "-", "*", "/", "%", ">", "<", "=", ";", "(", ")", "{", "}"}

\* str.isalpha() and str.islower(), up to U+00FF
IsLower(c) ==
    \/ c >= 97 /\ c <= 122
    \/ c \in {170, 181, 186}
    \/ c >= 223 /\ c <= 255 /\ c # 247

\* What a lexer method yields: the position reached (Lexer.pos), the token,
\* and the exception raised, "" when none
Lexed(pos, token) == [pos |-> pos, token |-> token, error |-> ""]
LexError(pos, message) == [pos |-> pos, token |-> NoToken, error |-> message]

skip_whitespace(pos) == SkipSpaces(source, pos)

RECURSIVE identifier_from(_, _)
identifier_from(pos, result) ==
    IF pos < Len(source) /\ IsLower(source[pos + 1])
    THEN identifier_from(pos + 1, result \o Chr(source[pos + 1]))
    ELSE Lexed(pos, Token(IF result \in KEYWORDS THEN "keyword" ELSE "id", result))

identifier(pos) == identifier_from(pos, "")

number(pos) ==
    LET last == SkipDigits(source, pos)
        value == DigitsValue(SubSeq(source, pos + 1, last), Zero)
    IN Lexed(last, Token("literal", hex_value(value)))

\* pos is the position of the opening quote
character(pos) ==
    LET escaped == pos + 1 < Len(source) /\ source[pos + 2] = 92
        at == IF escaped THEN pos + 2 ELSE pos + 1
    IN IF at >= Len(source)
       THEN LexError(at, IF escaped THEN "Unsupported escape sequence" ELSE "TypeError")
       ELSE IF escaped /\ source[at + 1] \notin {110, 92, 39}
            THEN LexError(at, "Unsupported escape sequence")
       ELSE IF at + 1 >= Len(source) \/ source[at + 2] # 39
            THEN LexError(at + 1, "Unterminated character literal")
       ELSE LET char_value == IF escaped /\ source[at + 1] = 110 THEN 10
                                                                ELSE source[at + 1]
            IN Lexed(at + 2, Token("literal", hex_value(Big(char_value))))

get_next_token(pos) ==
    LET p == skip_whitespace(pos)
        c == source[p + 1]
    IN IF p >= Len(source) THEN Lexed(p, NoToken)
       ELSE IF IsLower(c) THEN identifier(p)
       ELSE IF IsDigit(c) THEN number(p)
       ELSE IF c = 39 THEN character(p)
       ELSE IF c \in {62, 60, 61, 33} /\ p + 1 < Len(source) /\ source[p + 2] = 61
            THEN Lexed(p + 2, Token("op", Chr(c) \o "="))
       ELSE IF Chr(c) \in SINGLE_CHAR_OPS THEN Lexed(p + 1, Token("op", Chr(c)))
       ELSE LexError(p, "Invalid character")

\* tokenize from position pos on: the (type, value) pairs, or the exception
RECURSIVE tokenize_from(_, _)
tokenize_from(pos, found) ==
    LET l == get_next_token(pos)
    IN IF l.error # "" THEN [tokens |-> found, error |-> l.error]
       ELSE IF l.token.type = None THEN [tokens |-> found, error |-> ""]
       ELSE tokenize_from(l.pos, Append(found, <<l.token.type, l.token.value>>))

tokenize == tokenize_from(0, <<>>)

\* main() of lexer.py up to the printing
Tokenize ==
    /\ tokens = NotTokenized
    /\ tokens' = tokenize
    /\ UNCHANGED <<compilerVars, file, all_input, source, check_status, check_output,
                   vmVars, interpVars, truncVars>>

(***************************************************************************)
(* The parsers: ASTParser (compiler.py) and Parser (parser.py)             *)
(*                                                                         *)
(* Parser is ASTParser without the tree, method for method, but for its    *)
(* statement_list; class tells which of the two a parser is.  A parser is  *)
(* its lexer, its current token, the exception that has left the method    *)
(* ("" when none) and, in node, the value last returned.  The lexer of a   *)
(* parser is what its get_next_token will yield call by call: the tokens   *)
(* of tokenize, then None or the exception tokenize ends with; pos counts  *)
(* the calls made.                                                         *)
(***************************************************************************)
\* self.lexer.get_next_token() of a parser
next_token(p) ==
    IF p.pos < Len(p.lexer.tokens)
    THEN [p EXCEPT !.pos = p.pos + 1,
                   !.current_token = Token(p.lexer.tokens[p.pos + 1][1],
                                           p.lexer.tokens[p.pos + 1][2])]
    ELSE IF p.lexer.error # "" THEN [p EXCEPT !.error = p.lexer.error]
    ELSE [p EXCEPT !.current_token = NoToken]

\* __init__: the first token is read here
NewParser(class) ==
    next_token([class |-> class, lexer |-> tokenize, pos |-> 0, current_token |-> NoToken,
             error |-> "", node |-> None])

Fail(p, message) == [p EXCEPT !.error = message]

Returning(p, node) == IF p.error # "" THEN p ELSE [p EXCEPT !.node = node]

\* token_value is None when any value will do
eat(p, token_type, token_value) ==
    IF p.error # "" THEN p
    ELSE IF p.current_token.type = None THEN Fail(p, "Expected token")
    ELSE IF p.current_token.type = token_type
              /\ (token_value = None \/ p.current_token.value = token_value)
         THEN next_token(p)
         ELSE Fail(p, "Expected token")

\* The current token is the given keyword or operator
At(p, token_type, token_value) ==
    p.current_token.type = token_type /\ p.current_token.value = token_value

RECURSIVE statement(_), expression(_), chain(_, _)

\* statements.append(self.statement()): q is the parser after the statement
collect(statements, q) == Returning(q, Append(statements, q.node))

\* The while loop of statement_list; the node of p is the list so far
RECURSIVE statement_list_loop(_)
statement_list_loop(p) ==
    IF p.error # "" THEN p
    ELSE IF p.current_token.type # None /\ p.current_token.type # "op"
              /\ p.current_token.value # "}"
         THEN statement_list_loop(collect(p.node, statement(p)))
         ELSE p

\* ASTParser reads a first statement unless the token is "}", Parser always
statement_list(p) ==
    IF p.error # "" THEN p
    ELSE IF p.current_token.type = None THEN Returning(p, <<>>)
    ELSE IF p.class = "Parser" \/ p.current_token.type # "op"
              \/ p.current_token.value # "}"
         THEN statement_list_loop(collect(<<>>, statement(p)))
         ELSE statement_list_loop(Returning(p, <<>>))

\* if_statement from the else part on: g is the parser after its statements
if_statement_else(condition, then_statements, g) ==
    Returning(eat(g, "op", "}"), IfStatement(condition, then_statements, g.node))

\* if_statement after the "}" of the then part
if_statement_then_end(condition, then_statements, e) ==
    IF e.error = "" /\ At(e, "keyword", "else")
    THEN if_statement_else(condition, then_statements,
                           statement_list(eat(eat(e, "keyword", "else"), "op", "{")))
    ELSE Returning(e, IfStatement(condition, then_statements, None))

\* if_statement after the statements of the then part
if_statement_then(condition, t) ==
    if_statement_then_end(condition, t.node, eat(t, "op", "}"))

\* if_statement after the condition
if_statement_condition(c) ==
    if_statement_then(c.node, statement_list(eat(eat(c, "op", ")"), "op", "{")))

if_statement(p) ==
    if_statement_condition(expression(eat(eat(p, "keyword", "if"), "op", "(")))

\* while_statement after the statements of the body
while_statement_body(condition, b) ==
    Returning(eat(b, "op", "}"), WhileStatement(condition, b.node))

\* while_statement after the condition
while_statement_condition(c) ==
    while_statement_body(c.node, statement_list(eat(eat(c, "op", ")"), "op", "{")))

while_statement(p) ==
    while_statement_condition(expression(eat(eat(p, "keyword", "while"), "op", "(")))

\* assignment_statement after the expression
assignment_statement_expression(lvalue, e) ==
    Returning(eat(e, "op", ";"), AssignmentStatement(lvalue, e.node))

\* assignment_statement after the left side
assignment_statement_lvalue(lvalue, a) ==
    assignment_statement_expression(lvalue, expression(eat(a, "op", "=")))

assignment_statement(p) ==
    IF p.current_token.type = "id"
    THEN assignment_statement_lvalue(Identifier(p.current_token.value), eat(p, "id", None))
    ELSE IF p.current_token.type = "keyword" /\ p.current_token.value \in {"write", "put"}
         THEN assignment_statement_lvalue(SpecialVar(p.current_token.value),
                                          eat(p, "keyword", None))
    ELSE Fail(p, "Expected identifier or output variable")

statement(p) ==
    IF p.error # "" THEN p
    ELSE IF p.current_token.type = None THEN Fail(p, "Unexpected end of input")
    ELSE IF p.current_token.type = "keyword"
         THEN IF p.current_token.value = "if" THEN if_statement(p)
              ELSE IF p.current_token.value = "while" THEN while_statement(p)
              ELSE IF p.current_token.value \in {"write", "put"}
                   THEN assignment_statement(p)
              ELSE Fail(p, "Unexpected keyword")
    ELSE IF p.current_token.type = "id" THEN assignment_statement(p)
    ELSE Fail(p, "Unexpected token")

\* primary after the expression in parentheses
primary_parenthesised(e) == Returning(eat(e, "op", ")"), e.node)

primary(p) ==
    IF p.error # "" THEN p
    ELSE IF p.current_token.type = None THEN Fail(p, "AttributeError")
    ELSE IF p.current_token.type = "literal"
         THEN Returning(eat(p, "literal", None), Literal(p.current_token.value))
    ELSE IF p.current_token.type = "id"
         THEN Returning(eat(p, "id", None), Identifier(p.current_token.value))
    ELSE IF p.current_token.type = "keyword"
              /\ p.current_token.value \in {"read", "write", "put", "get"}
         THEN Returning(eat(p, "keyword", None), SpecialVar(p.current_token.value))
    ELSE IF At(p, "op", "(") THEN primary_parenthesised(expression(eat(p, "op", "(")))
    ELSE Fail(p, "Invalid primary expression")

\* The operators of equality, comparison, term and factor, with the levels
\* of two of them exchanged
LevelOps_exchanged == <<{"==", "!="}, {"+", "-"}, {">", "<", ">=", "<="}, {"*", "/", "%"}>>

\* The operators that the loops of equality, comparison, term and factor take
LevelOps == <<{"==", "!="}, {">", "<", ">=", "<="}, {"+", "-"}, {"*", "/", "%"}>>

\* Each of the four methods reads its left operand, which is the node of the
\* parser that enters its loop
factor(p) == chain(primary(p), 4)

term(p) == chain(factor(p), 3)

comparison(p) == chain(term(p), 2)

equality(p) == chain(comparison(p), 1)

expression(p) == equality(p)

\* The right operand in the loop of the level
right_operand(p, level) ==
    IF level = 1 THEN comparison(p)
    ELSE IF level = 2 THEN term(p)
    ELSE IF level = 3 THEN factor(p)
    ELSE primary(p)

\* left = BinaryOp(left, op, right)
combine(left, op, right) == Returning(right, BinaryOp(left, op, right.node))

\* The while loop of equality (level 1), comparison (2), term (3) or factor
\* (4); the node of p is left
chain(p, level) ==
    IF p.error # "" THEN p
    ELSE IF p.current_token.type = "op" /\ p.current_token.value \in LevelOps[level]
         THEN chain(combine(p.node, p.current_token.value,
                            right_operand(eat(p, "op", p.current_token.value),
                                          level)),
                    level)
         ELSE p

\* parse() after program()
parse_end(q) ==
    IF q.error # "" THEN q
    ELSE IF q.current_token.type # None
         THEN Fail(q, "Unexpected token at end of input")
    ELSE Returning(q, Program(q.node))

\* program() and parse(): error is "" iff Parser.parse returns True and
\* ASTParser.parse returns the tree, which is node
parse(p) == parse_end(statement_list(p))

\* ASTParser(lexer).parse()
ASTParser_parse == parse(NewParser("ASTParser"))

\* main() of compiler.py from the source text to the syntax tree
Parse ==
    /\ compile_status = "source"
    /\ LET parser == ASTParser_parse
       IN IF parser.error # ""
          THEN compile_status' = "error" /\ ast' = ast
          ELSE compile_status' = "parsed" /\ ast' = parser.node
    /\ UNCHANGED <<instructions, var_count, file, all_input, sourceVars, vmVars,
                   interpVars, truncVars>>

\* main() of parser.py: an exception of Parser(lexer) leaves main uncaught
CheckSyntax ==
    /\ check_status = "idle"
    /\ LET parser == NewParser("Parser")
       IN IF parser.error # ""
          THEN check_status' = "exit 1" /\ check_output' = ""
          ELSE /\ check_status' = "exit 0"
               /\ check_output' = IF parse(parser).error = "" THEN "PASS\n" ELSE "ERROR\n"
    /\ UNCHANGED <<compilerVars, file, all_input, source, tokens, vmVars, interpVars,
                   truncVars>>

(***************************************************************************)
(* The code generator (compiler.py)                                        *)
(***************************************************************************)
\* CodeGenerator.__init__; error is the exception that ended the generation
CodeGenerator == [instructions |-> <<>>, var_table |-> <<>>, var_count |-> 0, error |-> ""]

\* get_var_id numbering the variables from 1
get_var_id_from_one(g, name) ==
    IF name \in DOMAIN g.var_table THEN <<g, g.var_table[name]>>
    ELSE <<[g EXCEPT !.var_table = (name :> g.var_count + 1) @@ g.var_table,
                     !.var_count = g.var_count + 1],
           g.var_count + 1>>

\* get_var_id: <<the generator afterwards, the id>>
get_var_id(g, name) ==
    IF name \in DOMAIN g.var_table THEN <<g, g.var_table[name]>>
    ELSE <<[g EXCEPT !.var_table = (name :> g.var_count) @@ g.var_table,
                     !.var_count = g.var_count + 1],
           g.var_count>>

emit(g, opcode, operand) ==
    [g EXCEPT !.instructions = Append(g.instructions, Ins(opcode, operand))]

\* patch_jump leaving the instruction as it was emitted
patch_jump_skipped(g, instruction_index, target_address) == g

\* patch_jump storing the index of the target instruction for its address
patch_jump_instruction_index(g, instruction_index, target_address) ==
    [g EXCEPT !.instructions[instruction_index + 1] =
                  <<g.instructions[instruction_index + 1][1],
                    BigFloorDiv(target_address, Big(8))>>]

\* patch_jump storing the address of the instruction after the target
patch_jump_one_instruction_further(g, instruction_index, target_address) ==
    [g EXCEPT !.instructions[instruction_index + 1] =
                  <<g.instructions[instruction_index + 1][1],
                    BigAdd(target_address, Big(8))>>]

\* instruction_index counts from 0
patch_jump(g, instruction_index, target_address) ==
    [g EXCEPT !.instructions[instruction_index + 1] =
                  <<g.instructions[instruction_index + 1][1], target_address>>]

op_map ==
    ("+" :> OP_ADD) @@ ("-" :> OP_SUB) @@ ("*" :> OP_MUL) @@ ("/" :> OP_DIV)
    @@ ("%" :> OP_MOD) @@ (">" :> OP_GT) @@ ("<" :> OP_LT) @@ (">=" :> OP_GE)
    @@ ("<=" :> OP_LE) @@ ("==" :> OP_EQ) @@ ("!=" :> OP_NE)

RECURSIVE visit(_, _), visit_statements(_, _, _)

visit_Program(g, node) == visit_statements(g, node.statements, 1)

\* visit_AssignmentStatement taking the id of the lvalue before it visits the
\* expression
visit_AssignmentStatement_lvalue_first(g, node) ==
    LET v == get_var_id(g, node.lvalue.name)
        e == visit(IF node.lvalue.type = "Identifier" THEN v[1] ELSE g, node.expression)
    IN IF e.error # "" THEN e
       ELSE IF node.lvalue.type = "Identifier" THEN emit(e, DWRITE, Big(v[2]))
            ELSE IF node.lvalue.type = "SpecialVar" /\ node.lvalue.name = "write"
                 THEN emit(e, PUTI, Zero)
            ELSE IF node.lvalue.type = "SpecialVar" /\ node.lvalue.name = "put"
                 THEN emit(e, PUTC, Zero)
            ELSE e

visit_AssignmentStatement(g, node) ==
    LET e == visit(g, node.expression)
    IN IF e.error # "" THEN e
       ELSE IF node.lvalue.type = "Identifier"
            THEN LET v == get_var_id(e, node.lvalue.name)
                 IN emit(v[1], DWRITE, Big(v[2]))
            ELSE IF node.lvalue.type = "SpecialVar" /\ node.lvalue.name = "write"
                 THEN emit(e, PUTI, Zero)
            ELSE IF node.lvalue.type = "SpecialVar" /\ node.lvalue.name = "put"
                 THEN emit(e, PUTC, Zero)
            ELSE e

\* The three instructions after a condition: the two addresses, patched
\* later, and the conditional jump
emit_branch(g) == emit(emit(emit(g, DSTORE, Zero), DSTORE, Zero), EVAL, Big(OP_COND_JUMP))

\* visit_IfStatement whose JUMP after the then part goes to the else part
visit_IfStatement_into_else(g, node) ==
    LET c == visit(g, node.condition)
        then_addr_pos == Len(c.instructions)
        else_addr_pos == then_addr_pos + 1
        b == emit_branch(c)
        then_start == Len(b.instructions)
        t == visit_statements(b, node.then_statements, 1)
    IN IF c.error # "" THEN c
       ELSE IF t.error # "" THEN t
       ELSE IF Truthy(node.else_statements)
            THEN LET jump_to_end == Len(t.instructions)
                     j == emit(t, JUMP, Zero)
                     else_start == Len(j.instructions)
                     e == visit_statements(j, node.else_statements, 1)
                 IN IF e.error # "" THEN e
                    ELSE patch_jump(patch_jump(patch_jump(e, jump_to_end,
                                                          Big(else_start * 8)),
                                               then_addr_pos, Big(then_start * 8)),
                                    else_addr_pos, Big(else_start * 8))
            ELSE LET end_addr == Len(t.instructions) * 8
                 IN patch_jump(patch_jump(t, then_addr_pos, Big(then_start * 8)),
                               else_addr_pos, Big(end_addr))

visit_IfStatement(g, node) ==
    LET c == visit(g, node.condition)
        then_addr_pos == Len(c.instructions)
        else_addr_pos == then_addr_pos + 1
        b == emit_branch(c)
        then_start == Len(b.instructions)
        t == visit_statements(b, node.then_statements, 1)
    IN IF c.error # "" THEN c
       ELSE IF t.error # "" THEN t
       ELSE IF Truthy(node.else_statements)
            THEN LET jump_to_end == Len(t.instructions)
                     j == emit(t, JUMP, Zero)
                     else_start == Len(j.instructions)
                     e == visit_statements(j, node.else_statements, 1)
                     end_addr == Len(e.instructions) * 8
                 IN IF e.error # "" THEN e
                    ELSE patch_jump(patch_jump(patch_jump(e, jump_to_end, Big(end_addr)),
                                               then_addr_pos, Big(then_start * 8)),
                                    else_addr_pos, Big(else_start * 8))
            ELSE LET end_addr == Len(t.instructions) * 8
                 IN patch_jump(patch_jump(t, then_addr_pos, Big(then_start * 8)),
                               else_addr_pos, Big(end_addr))

\* visit_WhileStatement whose JUMP after the body goes back to the body
visit_WhileStatement_back_to_body(g, node) ==
    LET c == visit(g, node.condition)
        then_addr_pos == Len(c.instructions)
        else_addr_pos == then_addr_pos + 1
        b == emit_branch(c)
        body_start == Len(b.instructions)
        s == visit_statements(b, node.body_statements, 1)
        j == emit(s, JUMP, Big(body_start * 8))
        end_addr == Len(j.instructions) * 8
    IN IF c.error # "" THEN c
       ELSE IF s.error # "" THEN s
       ELSE patch_jump(patch_jump(j, then_addr_pos, Big(body_start * 8)),
                       else_addr_pos, Big(end_addr))

visit_WhileStatement(g, node) ==
    LET loop_start == Len(g.instructions)
        c == visit(g, node.condition)
        then_addr_pos == Len(c.instructions)
        else_addr_pos == then_addr_pos + 1
        b == emit_branch(c)
        body_start == Len(b.instructions)
        s == visit_statements(b, node.body_statements, 1)
        j == emit(s, JUMP, Big(loop_start * 8))
        end_addr == Len(j.instructions) * 8
    IN IF c.error # "" THEN c
       ELSE IF s.error # "" THEN s
       ELSE patch_jump(patch_jump(j, then_addr_pos, Big(body_start * 8)),
                       else_addr_pos, Big(end_addr))

\* visit_BinaryOp emitting the code of the operands and no EVAL
visit_BinaryOp_operands_only(g, node) ==
    LET l == visit(g, node.left)
        r == visit(l, node.right)
    IN IF l.error # "" THEN l ELSE r

visit_BinaryOp(g, node) ==
    LET l == visit(g, node.left)
        r == visit(l, node.right)
    IN IF l.error # "" THEN l
       ELSE IF r.error # "" THEN r
       ELSE IF node.operator \in DOMAIN op_map
            THEN emit(r, EVAL, Big(op_map[node.operator]))
            ELSE [r EXCEPT !.error = "Unknown operator"]

visit_Identifier(g, node) ==
    LET v == get_var_id(g, node.name)
    IN emit(v[1], DLOAD, Big(v[2]))

visit_Literal(g, node) == emit(g, DSTORE, int16(node.value))

\* visit_SpecialVar emitting nothing, and raising nothing, for write and put
visit_SpecialVar_silent(g, node) ==
    IF node.name = "read" THEN emit(g, GETI, Zero)
    ELSE IF node.name = "get" THEN emit(g, GETC, Zero)
    ELSE g

visit_SpecialVar(g, node) ==
    IF node.name = "read" THEN emit(g, GETI, Zero)
    ELSE IF node.name = "get" THEN emit(g, GETC, Zero)
    ELSE IF node.name = "write" \/ node.name = "put"
         THEN [g EXCEPT !.error = "Unexpected special variable in expression"]
    ELSE g

\* for stmt in statements: self.visit(stmt), from the i-th statement on
visit_statements(g, statements, i) ==
    IF g.error # "" \/ i > Len(statements) THEN g
    ELSE visit_statements(visit(g, statements[i]), statements, i + 1)

visit(g, node) ==
    IF node.type = "Program" THEN visit_Program(g, node)
    ELSE IF node.type = "AssignmentStatement" THEN visit_AssignmentStatement(g, node)
    ELSE IF node.type = "IfStatement" THEN visit_IfStatement(g, node)
    ELSE IF node.type = "WhileStatement" THEN visit_WhileStatement(g, node)
    ELSE IF node.type = "BinaryOp" THEN visit_BinaryOp(g, node)
    ELSE IF node.type = "Identifier" THEN visit_Identifier(g, node)
    ELSE IF node.type = "Literal" THEN visit_Literal(g, node)
    ELSE IF node.type = "SpecialVar" THEN visit_SpecialVar(g, node)
    ELSE [g EXCEPT !.error = "No visit method"]

\* generate that leaves the closing instruction out
generate_without_halt(tree) == visit(CodeGenerator, tree)

generate(tree) ==
    LET g == visit(CodeGenerator, tree)
    IN IF g.error # "" THEN g ELSE emit(g, JUMP, HALT)

\* main() of compiler.py from the syntax tree to the instruction list
Generate ==
    /\ compile_status = "parsed"
    /\ LET generator == generate(ast)
       IN IF generator.error # ""
          THEN compile_status' = "error" /\ UNCHANGED <<instructions, var_count>>
          ELSE /\ compile_status' = "generated"
               /\ instructions' = generator.instructions
               /\ var_count' = generator.var_count
    /\ UNCHANGED <<ast, file, all_input, sourceVars, vmVars, interpVars, truncVars>>

(***************************************************************************)
(* The tree-walking interpreter (interpreter.py)                           *)
(*                                                                         *)
(* Its parser builds the same tree under other names: Assignment(target,   *)
(* value), Keyword for SpecialVar, BinaryOp.op, Block for a statement list *)
(* and a Literal that already holds int(value, 16).                        *)
(***************************************************************************)
MaxIterations == 8

\* Interpreter.__init__; cut is set when a loop has used up MaxIterations
Interpreter == [variables |-> <<>>, input_index |-> 0, output |-> <<>>, cut |-> FALSE]

\* read_integer: <<the interpreter afterwards, the value>>
read_integer(it) ==
    LET start_index == SkipSpaces(all_input, it.input_index)
        skipped == [it EXCEPT !.input_index = start_index]
    IN IF start_index >= Len(all_input) THEN <<skipped, Zero>>
       ELSE LET minus == all_input[start_index + 1] = 45
                first == IF minus THEN start_index + 1 ELSE start_index
                last == SkipDigits(all_input, first)
                magnitude == DigitsValue(SubSeq(all_input, first + 1, last), Zero)
            IN IF last = first THEN <<skipped, Zero>>
               ELSE <<[it EXCEPT !.input_index = last],
                      IF minus THEN BigNeg(magnitude) ELSE magnitude>>

read_character(it) ==
    IF it.input_index < Len(all_input)
    THEN <<[it EXCEPT !.input_index = it.input_index + 1],
           Big(all_input[it.input_index + 1])>>
    ELSE <<it, Zero>>

\* The value of visit_BinaryOp from the values of its operands
binary_value(left, op, right) ==
    IF op = "+" THEN BigAdd(left, right)
    ELSE IF op = "-" THEN BigSub(left, right)
    ELSE IF op = "*" THEN BigMul(left, right)
    ELSE IF op = "/" THEN (IF right # Zero THEN BigFloorDiv(left, right) ELSE Zero)
    ELSE IF op = "%" THEN (IF right # Zero THEN BigMod(left, right) ELSE Zero)
    ELSE IF op = ">" THEN Bool(BigLt(right, left))
    ELSE IF op = "<" THEN Bool(BigLt(left, right))
    ELSE IF op = ">=" THEN Bool(BigLe(right, left))
    ELSE IF op = "<=" THEN Bool(BigLe(left, right))
    ELSE IF op = "==" THEN Bool(left = right)
    ELSE Bool(left # right)

\* Each visitor yields <<the interpreter afterwards, the value returned>>
RECURSIVE Interpreter_visit(_, _), Interpreter_visit_Block(_, _, _),
          Interpreter_loop(_, _, _)

Interpreter_visit_Program(it, node) == Interpreter_visit_Block(it, node.statements, 1)

Interpreter_visit_Assignment(it, node) ==
    LET r == Interpreter_visit(it, node.expression)
        value == r[2]
        target == node.lvalue
    IN IF target.type = "Identifier"
       THEN <<[r[1] EXCEPT !.variables = (target.name :> value) @@ r[1].variables], None>>
       ELSE IF target.name = "write"
            THEN <<[r[1] EXCEPT !.output = r[1].output \o Decimal(value)], None>>
       ELSE IF target.name = "put" /\ BigLe(Zero, value) /\ BigLe(value, Big(127))
            THEN <<[r[1] EXCEPT !.output = Append(r[1].output, IntOf(value))], None>>
       ELSE <<r[1], None>>

Interpreter_visit_IfStatement(it, node) ==
    LET c == Interpreter_visit(it, node.condition)
    IN IF c[2] # Zero THEN Interpreter_visit_Block(c[1], node.then_statements, 1)
       ELSE IF node.else_statements # None
            THEN Interpreter_visit_Block(c[1], node.else_statements, 1)
       ELSE <<c[1], None>>

Interpreter_visit_WhileStatement(it, node) == Interpreter_loop(it, node, MaxIterations)

Interpreter_visit_BinaryOp(it, node) ==
    LET l == Interpreter_visit(it, node.left)
        r == Interpreter_visit(l[1], node.right)
    IN <<r[1], binary_value(l[2], node.operator, r[2])>>

Interpreter_visit_Literal(it, node) == <<it, int16(node.value)>>

Interpreter_visit_Identifier(it, node) ==
    <<it, IF node.name \in DOMAIN it.variables THEN it.variables[node.name] ELSE Zero>>

Interpreter_visit_Keyword(it, node) ==
    IF node.name = "read" THEN read_integer(it)
    ELSE IF node.name = "get" THEN read_character(it)
    ELSE <<it, Zero>>

\* visit_Block from the i-th statement on
Interpreter_visit_Block(it, statements, i) ==
    IF it.cut \/ i > Len(statements) THEN <<it, None>>
    ELSE Interpreter_visit_Block(Interpreter_visit(it, statements[i])[1], statements, i + 1)

\* visit_WhileStatement's loop with n more iterations allowed
Interpreter_loop(it, node, n) ==
    LET c == Interpreter_visit(it, node.condition)
    IN IF it.cut THEN <<it, None>>
       ELSE IF c[2] = Zero THEN <<c[1], None>>
       ELSE IF n = 0 THEN <<[c[1] EXCEPT !.cut = TRUE], None>>
       ELSE Interpreter_loop(Interpreter_visit_Block(c[1], node.body_statements, 1)[1],
                             node, n - 1)

Interpreter_visit(it, node) ==
    IF node.type = "Program" THEN Interpreter_visit_Program(it, node)
    ELSE IF node.type = "AssignmentStatement" THEN Interpreter_visit_Assignment(it, node)
    ELSE IF node.type = "IfStatement" THEN Interpreter_visit_IfStatement(it, node)
    ELSE IF node.type = "WhileStatement" THEN Interpreter_visit_WhileStatement(it, node)
    ELSE IF node.type = "BinaryOp" THEN Interpreter_visit_BinaryOp(it, node)
    ELSE IF node.type = "Literal" THEN Interpreter_visit_Literal(it, node)
    ELSE IF node.type = "Identifier" THEN Interpreter_visit_Identifier(it, node)
    ELSE Interpreter_visit_Keyword(it, node)

interpret(tree) == Interpreter_visit(Interpreter, tree)[1]

\* main() of interpreter.py from the syntax tree on, with the text of
\* mandrill.in being the text the VM reads
Interpret ==
    /\ interp_status = "idle"
    /\ compile_status # "none"
    /\ LET it == interpret(ast)
       IN /\ interp_output' = it.output
          /\ interp_status' = IF it.cut THEN "running" ELSE "done"
    /\ UNCHANGED <<compilerVars, file, all_input, sourceVars, vmVars, truncVars>>

(***************************************************************************)
(* Compiling and running programs, and interpreting them                   *)
(***************************************************************************)
Num(n) == Literal(hex_value(Big(n)))
Var(name) == Identifier(name)
Write(value) == AssignmentStatement(SpecialVar("write"), value)
Put(value) == AssignmentStatement(SpecialVar("put"), value)
Let(name, value) == AssignmentStatement(Identifier(name), value)
Read == SpecialVar("read")
Get == SpecialVar("get")

\* The trees of these programs, in the order of Programs:
\*   (empty)
\*   write = 2147483647 + 1;
\*   write = 4294967295;
\*   write = 4294967296;
\*   write = read / read;   write = read % read;   write = read - read;
\*   write = read * read + read;
\*   a = get; b = read; write = b; put = a;
\*   n = read; while (n > 0) { write = n; n = n - 1; }
\*   if (read == 1) { put = 65; } else { put = 66; } write = x;
\*   if (read) { write = 1; } write = 2;
\*   if (0) { } else { } put = 200; put = 10;
\*   while (1) { }
\*   i = 0; while (i < 2) { if (i % 2 == 0) { put = 'a'; } else { put = 'b'; } i = i + 1; }
\*   b = a; a = b <= 3 != 0; write = a >= b;
\*   x = write;   put = put;
\*   x = read; if (x > 0) { write = 1; } else { write = 0; }              (Branch)
\*   i = 1; s = 0; while (i <= 10) { s = s + i; i = i + 1; } write = s;   (Loop)
\*   a = read; b = get; c = read; d = get; write = a; write = c; put = b; put = d;
\*   n = read;                                                           (Nested)
\*   if (n > 0) {
\*     while (n > 0) {
\*       if (n % 2 == 1) { m = n; while (m > 0) { put = 'x'; m = m - 1; } }
\*       else { if (n == 2) { write = n; } }
\*       n = n - 1;
\*     }
\*   } else {
\*     if (n == 0) { write = 0; } else { while (n < 0) { n = n + 1; } put = '!'; }
\*   }
\*   write = n;
\*   a = b; write = a; write = b;
\*   a = read + read; b = 4294967295; write = a; write = b;
Programs ==
    << Program(<<>>),
       Program(<<Write(BinaryOp(Num(2147483647), "+", Num(1)))>>),
       Program(<<Write(Literal(hex_value(HALT)))>>),
       Program(<<Write(Literal(hex_value(UINT32_MAX)))>>),
       Program(<<Write(BinaryOp(Read, "/", Read))>>),
       Program(<<Write(BinaryOp(Read, "%", Read))>>),
       Program(<<Write(BinaryOp(Read, "-", Read))>>),
       Program(<<Write(BinaryOp(BinaryOp(Read, "*", Read), "+", Read))>>),
       Program(<<Let("a", Get), Let("b", Read), Write(Var("b")), Put(Var("a"))>>),
       Program(<<Let("n", Read),
                 WhileStatement(BinaryOp(Var("n"), ">", Num(0)),
                                <<Write(Var("n")),
                                  Let("n", BinaryOp(Var("n"), "-", Num(1)))>>)>>),
       Program(<<IfStatement(BinaryOp(Read, "==", Num(1)),
                             <<Put(Num(65))>>, <<Put(Num(66))>>),
                 Write(Var("x"))>>),
       Program(<<IfStatement(Read, <<Write(Num(1))>>, None), Write(Num(2))>>),
       Program(<<IfStatement(Num(0), <<>>, <<>>), Put(Num(200)), Put(Num(10))>>),
       Program(<<WhileStatement(Num(1), <<>>)>>),
       Program(<<Let("i", Num(0)),
                 WhileStatement(BinaryOp(Var("i"), "<", Num(2)),
                                <<IfStatement(BinaryOp(BinaryOp(Var("i"), "%", Num(2)),
                                                       "==", Num(0)),
                                              <<Put(Num(97))>>, <<Put(Num(98))>>),
                                  Let("i", BinaryOp(Var("i"), "+", Num(1)))>>)>>),
       Program(<<Let("b", Var("a")),
                 Let("a", BinaryOp(BinaryOp(Var("b"), "<=", Num(3)), "!=", Num(0))),
                 Write(BinaryOp(Var("a"), ">=", Var("b")))>>),
       Program(<<Let("x", SpecialVar("write"))>>),
       Program(<<Put(SpecialVar("put"))>>),
       Program(<<Let("x", Read),
                 IfStatement(BinaryOp(Var("x"), ">", Num(0)),
                             <<Write(Num(1))>>, <<Write(Num(0))>>)>>),
       Program(<<Let("i", Num(1)), Let("s", Num(0)),
                 WhileStatement(BinaryOp(Var("i"), "<=", Num(10)),
                                <<Let("s", BinaryOp(Var("s"), "+", Var("i"))),
                                  Let("i", BinaryOp(Var("i"), "+", Num(1)))>>),
                 Write(Var("s"))>>),
       Program(<<Let("a", Read), Let("b", Get), Let("c", Read), Let("d", Get),
                 Write(Var("a")), Write(Var("c")), Put(Var("b")), Put(Var("d"))>>),
       Program(<<Let("n", Read),
                 IfStatement(
                     BinaryOp(Var("n"), ">", Num(0)),
                     <<WhileStatement(
                           BinaryOp(Var("n"), ">", Num(0)),
                           <<IfStatement(
                                 BinaryOp(BinaryOp(Var("n"), "%", Num(2)), "==", Num(1)),
                                 <<Let("m", Var("n")),
                                   WhileStatement(
                                       BinaryOp(Var("m"), ">", Num(0)),
                                       <<Put(Num(120)),
                                         Let("m", BinaryOp(Var("m"), "-", Num(1)))>>)>>,
                                 <<IfStatement(BinaryOp(Var("n"), "==", Num(2)),
                                               <<Write(Var("n"))>>, None)>>),
                             Let("n", BinaryOp(Var("n"), "-", Num(1)))>>)>>,
                     <<IfStatement(
                           BinaryOp(Var("n"), "==", Num(0)),
                           <<Write(Num(0))>>,
                           <<WhileStatement(BinaryOp(Var("n"), "<", Num(0)),
                                            <<Let("n", BinaryOp(Var("n"), "+", Num(1)))>>),
                             Put(Num(33))>>)>>),
                 Write(Var("n"))>>),
       Program(<<Let("a", Var("b")), Write(Var("a")), Write(Var("b"))>>),
       Program(<<Let("a", BinaryOp(Read, "+", Read)), Let("b", Literal(hex_value(HALT))),
                 Write(Var("a")), Write(Var("b"))>>) >>

\* "", "1", "0", "3", "7 2", "-7 2", "1 0", "5 7 3", "A+5\n", "5", "-5",
\* "2147483647 1"
Inputs ==
    { <<>>, <<49>>, <<48>>, <<51>>, <<55, 32, 50>>, <<45, 55, 32, 50>>, <<49, 32, 48>>,
      <<53, 32, 55, 32, 51>>, <<65, 43, 53, 10>>, <<53>>, <<45, 53>>,
      <<50, 49, 52, 55, 52, 56, 51, 54, 52, 55, 32, 49>> }

InitCompile ==
    /\ \E p \in 1..Len(Programs) : ast = Programs[p]
    /\ all_input \in Inputs
    /\ compile_status = "parsed"
    /\ instructions = <<>>
    /\ var_count = 0
    /\ file = None
    /\ NoVM
    /\ NoInterpreter
    /\ NoTruncation
    /\ NoSource

NextCompile ==
    Generate \/ WriteBytecode \/ NewVM \/ LoadBytecode \/ Run \/ Step \/ Interpret

SpecCompile == InitCompile /\ [][NextCompile]_vars

\* The programs with a while among their statements, each on every input
InitLoops ==
    /\ InitCompile
    /\ \E k \in 1..Len(ast.statements) : ast.statements[k].type = "WhileStatement"

\* ENABLED <<Step>>_vars: a turn of run()'s loop on generated code always
\* changes pc or status
StepEnabled == status = "running" /\ Len(output) <= MaxOutput

\* WF_vars(Step), with StepEnabled for ENABLED <<Step>>_vars
FairStep == []<>(~StepEnabled) \/ []<><<Step>>_vars

\* main() of vm.py calls run() once the bytecode is loaded, and run() goes
\* through its loop without pausing
FairLoops == InitLoops /\ [][NextCompile]_vars /\ WF_vars(Run) /\ FairStep

(***************************************************************************)
(* Source texts through the lexer, the two parsers and the compiler         *)
(***************************************************************************)
\* Programs of the grammar with a body in every pair of braces
ValidSources ==
    { \* (empty)
      Src(<<>>),
      \* write = 2147483647 + 1;
      Src(<<"w", "r", "i", "t", "e", " ", "=", " ", "2", "1", "4", "7", "4", "8",
      "3", "6", "4", "7", " ", "+", " ", "1", ";">>),
      \* write = 4294967296;
      Src(<<"w", "r", "i", "t", "e", " ", "=", " ", "4", "2", "9", "4", "9", "6",
      "7", "2", "9", "6", ";">>),
      \* a = get; b = read; write = b; put = a;
      Src(<<"a", " ", "=", " ", "g", "e", "t", ";", " ", "b", " ", "=", " ", "r",
      "e", "a", "d", ";", " ", "w", "r", "i", "t", "e", " ", "=", " ", "b", ";",
      " ", "p", "u", "t", " ", "=", " ", "a", ";">>),
      \* n = read; while (n > 0) { write = n; n = n - 1; }
      Src(<<"n", " ", "=", " ", "r", "e", "a", "d", ";", " ", "w", "h", "i", "l",
      "e", " ", "(", "n", " ", ">", " ", "0", ")", " ", "{", " ", "w", "r", "i",
      "t", "e", " ", "=", " ", "n", ";", " ", "n", " ", "=", " ", "n", " ", "-",
      " ", "1", ";", " ", "}">>),
      \* x = read; if (x > 0) { write = 1; } else { write = 0; }
      Src(<<"x", " ", "=", " ", "r", "e", "a", "d", ";", " ", "i", "f", " ", "(",
      "x", " ", ">", " ", "0", ")", " ", "{", " ", "w", "r", "i", "t", "e", " ",
      "=", " ", "1", ";", " ", "}", " ", "e", "l", "s", "e", " ", "{", " ", "w",
      "r", "i", "t", "e", " ", "=", " ", "0", ";", " ", "}">>),
      \* if (read) { write = 1; } write = 2;
      Src(<<"i", "f", " ", "(", "r", "e", "a", "d", ")", " ", "{", " ", "w", "r",
      "i", "t", "e", " ", "=", " ", "1", ";", " ", "}", " ", "w", "r", "i", "t",
      "e", " ", "=", " ", "2", ";">>),
      \* i = 1; s = 0; while (i <= 10) { s = s + i; i = i + 1; } write = s;
      Src(<<"i", " ", "=", " ", "1", ";", " ", "s", " ", "=", " ", "0", ";", " ",
      "w", "h", "i", "l", "e", " ", "(", "i", " ", "<", "=", " ", "1", "0", ")",
      " ", "{", " ", "s", " ", "=", " ", "s", " ", "+", " ", "i", ";", " ", "i",
      " ", "=", " ", "i", " ", "+", " ", "1", ";", " ", "}", " ", "w", "r", "i",
      "t", "e", " ", "=", " ", "s", ";">>),
      \* a=1;b=2;write=a+b;
      Src(<<"a", "=", "1", ";", "b", "=", "2", ";", "w", "r", "i", "t", "e", "=",
      "a", "+", "b", ";">>),
      \*   a\n=\t1 ;\n
      <<32, 32, 97, 10, 61, 9, 49, 32, 59, 10>>,
      \* put = 'a';
      Src(<<"p", "u", "t", " ", "=", " ", "'", "a", "'", ";">>),
      \* put = '\\n';
      Src(<<"p", "u", "t", " ", "=", " ", "'", "\\", "n", "'", ";">>),
      \* put = '\\\\';
      Src(<<"p", "u", "t", " ", "=", " ", "'", "\\", "\\", "'", ";">>),
      \* put = '\\'';
      Src(<<"p", "u", "t", " ", "=", " ", "'", "\\", "'", "'", ";">>),
      \* put = ''';
      Src(<<"p", "u", "t", " ", "=", " ", "'", "'", "'", ";">>),
      \* x = write;
      Src(<<"x", " ", "=", " ", "w", "r", "i", "t", "e", ";">>),
      \* put = put;
      Src(<<"p", "u", "t", " ", "=", " ", "p", "u", "t", ";">>),
      \* a = put + 1;
      Src(<<"a", " ", "=", " ", "p", "u", "t", " ", "+", " ", "1", ";">>),
      \* a = ((1));
      Src(<<"a", " ", "=", " ", "(", "(", "1", ")", ")", ";">>),
      \* a = (b + 1) * (c - 2);
      Src(<<"a", " ", "=", " ", "(", "b", " ", "+", " ", "1", ")", " ", "*", " ",
      "(", "c", " ", "-", " ", "2", ")", ";">>),
      \* ifx = elsey;
      Src(<<"i", "f", "x", " ", "=", " ", "e", "l", "s", "e", "y", ";">>),
      \* a = 007;
      Src(<<"a", " ", "=", " ", "0", "0", "7", ";">>) }

\* Programs of the grammar with an empty pair of braces
EmptyBodySources ==
    { \* if (x) { }
      Src(<<"i", "f", " ", "(", "x", ")", " ", "{", " ", "}">>),
      \* if (x) { } else { }
      Src(<<"i", "f", " ", "(", "x", ")", " ", "{", " ", "}", " ", "e", "l", "s",
      "e", " ", "{", " ", "}">>),
      \* if (x) { a = 1; } else { }
      Src(<<"i", "f", " ", "(", "x", ")", " ", "{", " ", "a", " ", "=", " ", "1",
      ";", " ", "}", " ", "e", "l", "s", "e", " ", "{", " ", "}">>),
      \* if (x) { } else { a = 1; }
      Src(<<"i", "f", " ", "(", "x", ")", " ", "{", " ", "}", " ", "e", "l", "s",
      "e", " ", "{", " ", "a", " ", "=", " ", "1", ";", " ", "}">>),
      \* while (x) { }
      Src(<<"w", "h", "i", "l", "e", " ", "(", "x", ")", " ", "{", " ", "}">>),
      \* if (x) { } a = 1;
      Src(<<"i", "f", " ", "(", "x", ")", " ", "{", " ", "}", " ", "a", " ", "=",
      " ", "1", ";">>),
      \* while (x) { if (y) { } }
      Src(<<"w", "h", "i", "l", "e", " ", "(", "x", ")", " ", "{", " ", "i", "f",
      " ", "(", "y", ")", " ", "{", " ", "}", " ", "}">>) }

\* Sources whose first token the lexer cannot read
FirstTokenErrorSources ==
    { \* @
      Src(<<"@">>),
      \* A = 1;
      Src(<<"A", " ", "=", " ", "1", ";">>),
      \* 'a
      Src(<<"'", "a">>),
      \* '
      Src(<<"'">>),
      \*   #
      Src(<<" ", " ", "#">>),
      \* !a
      Src(<<"!", "a">>),
      \* 'ab' = 1;
      Src(<<"'", "a", "b", "'", " ", "=", " ", "1", ";">>) }

\* Sources with a character or literal the lexer cannot read after the first token
LaterTokenErrorSources ==
    { \* a = @;
      Src(<<"a", " ", "=", " ", "@", ";">>),
      \* a = 1 $
      Src(<<"a", " ", "=", " ", "1", " ", "$">>),
      \* a = 'ab';
      Src(<<"a", " ", "=", " ", "'", "a", "b", "'", ";">>),
      \* a = '\\q';
      Src(<<"a", " ", "=", " ", "'", "\\", "q", "'", ";">>),
      \* a = '
      Src(<<"a", " ", "=", " ", "'">>),
      \* a = '\\
      Src(<<"a", " ", "=", " ", "'", "\\">>),
      \* x = 1; #
      Src(<<"x", " ", "=", " ", "1", ";", " ", "#">>),
      \* a = 1; B = 2;
      Src(<<"a", " ", "=", " ", "1", ";", " ", "B", " ", "=", " ", "2", ";">>),
      \* a = 1 ! 2;
      Src(<<"a", " ", "=", " ", "1", " ", "!", " ", "2", ";">>),
      \* if (x) { } ?
      Src(<<"i", "f", " ", "(", "x", ")", " ", "{", " ", "}", " ", "?">>),
      \* a = b_c;
      Src(<<"a", " ", "=", " ", "b", "_", "c", ";">>) }

\* Sources of tokens that are no program of the grammar
SyntaxErrorSources ==
    { \* a = ;
      Src(<<"a", " ", "=", " ", ";">>),
      \* a 1
      Src(<<"a", " ", "1">>),
      \* if x { }
      Src(<<"i", "f", " ", "x", " ", "{", " ", "}">>),
      \* a = 1
      Src(<<"a", " ", "=", " ", "1">>),
      \* }
      Src(<<"}">>),
      \* a = 1; }
      Src(<<"a", " ", "=", " ", "1", ";", " ", "}">>),
      \* else { }
      Src(<<"e", "l", "s", "e", " ", "{", " ", "}">>),
      \* read = 1;
      Src(<<"r", "e", "a", "d", " ", "=", " ", "1", ";">>),
      \* if (a) { a = 1; 
      Src(<<"i", "f", " ", "(", "a", ")", " ", "{", " ", "a", " ", "=", " ", "1",
      ";", " ">>),
      \* a = (1;
      Src(<<"a", " ", "=", " ", "(", "1", ";">>),
      \* a = 1 +;
      Src(<<"a", " ", "=", " ", "1", " ", "+", ";">>),
      \* 5
      Src(<<"5">>),
      \* a = 1;;
      Src(<<"a", " ", "=", " ", "1", ";", ";">>),
      \* while (1) a = 1;
      Src(<<"w", "h", "i", "l", "e", " ", "(", "1", ")", " ", "a", " ", "=", " ",
      "1", ";">>),
      \* a == 1;
      Src(<<"a", " ", "=", "=", " ", "1", ";">>),
      \* a = else;
      Src(<<"a", " ", "=", " ", "e", "l", "s", "e", ";">>),
      \* a = 1; 5
      Src(<<"a", " ", "=", " ", "1", ";", " ", "5">>),
      \* a = 1 2;
      Src(<<"a", " ", "=", " ", "1", " ", "2", ";">>),
      \* if (a) { a = 1; } else
      Src(<<"i", "f", " ", "(", "a", ")", " ", "{", " ", "a", " ", "=", " ", "1",
      ";", " ", "}", " ", "e", "l", "s", "e">>),
      \* a = ();
      Src(<<"a", " ", "=", " ", "(", ")", ";">>),
      \* get = 1;
      Src(<<"g", "e", "t", " ", "=", " ", "1", ";">>),
      \* a = 1; b
      Src(<<"a", " ", "=", " ", "1", ";", " ", "b">>),
      \* { }
      Src(<<"{", " ", "}">>),
      \* if () { }
      Src(<<"i", "f", " ", "(", ")", " ", "{", " ", "}">>),
      \* while (x) { } }
      Src(<<"w", "h", "i", "l", "e", " ", "(", "x", ")", " ", "{", " ", "}", " ",
      "}">>) }

\* Sources with a character above U+007F
WideCharacterSources ==
    { \* put = 'U+00E9';
      <<112, 117, 116, 32, 61, 32, 39, 233, 39, 59>>,
      \* a = 'U+00FF' + 1;
      <<97, 32, 61, 32, 39, 255, 39, 32, 43, 32, 49, 59>>,
      \* U+00E9 = 1;
      <<233, 32, 61, 32, 49, 59>>,
      \* a = 'U+0080';
      <<97, 32, 61, 32, 39, 128, 39, 59>> }


OperatorText ==
    ("==" :> Src(<<"=", "=">>)) @@ ("!=" :> Src(<<"!", "=">>)) @@ (">" :> Src(<<">">>))
    @@ ("<" :> Src(<<"<">>)) @@ (">=" :> Src(<<">", "=">>)) @@ ("<=" :> Src(<<"<", "=">>))
    @@ ("+" :> Src(<<"+">>)) @@ ("-" :> Src(<<"-">>)) @@ ("*" :> Src(<<"*">>))
    @@ ("/" :> Src(<<"/">>)) @@ ("%" :> Src(<<"%">>))

\* x=a op1 b op2 c;
ExpressionSource(op1, op2) ==
    Src(<<"x", "=", "a">>) \o OperatorText[op1] \o Src(<<"b">>) \o OperatorText[op2]
    \o Src(<<"c", ";">>)

\* x=(a op1 b) op2 c;
LeftGroupedSource(op1, op2) ==
    Src(<<"x", "=", "(", "a">>) \o OperatorText[op1] \o Src(<<"b", ")">>)
    \o OperatorText[op2] \o Src(<<"c", ";">>)

\* x=a op1 (b op2 c);
RightGroupedSource(op1, op2) ==
    Src(<<"x", "=", "a">>) \o OperatorText[op1] \o Src(<<"(", "b">>) \o OperatorText[op2]
    \o Src(<<"c", ")", ";">>)

ExpressionSources ==
    UNION { { ExpressionSource(op1, op2), LeftGroupedSource(op1, op2),
              RightGroupedSource(op1, op2) } : op1 \in DOMAIN op_map, op2 \in DOMAIN op_map }

Sources ==
    ValidSources \cup EmptyBodySources \cup FirstTokenErrorSources
    \cup LaterTokenErrorSources \cup SyntaxErrorSources \cup WideCharacterSources
    \cup ExpressionSources

InitSource ==
    /\ source \in Sources
    /\ tokens = NotTokenized
    /\ check_status = "idle"
    /\ check_output = ""
    /\ ast = None
    /\ compile_status = "source"
    /\ instructions = <<>>
    /\ var_count = 0
    /\ file = None
    /\ all_input = <<>>
    /\ NoVM
    /\ NoInterpreter
    /\ NoTruncation

NextSource == Tokenize \/ CheckSyntax \/ Parse \/ Generate \/ WriteBytecode

SpecSource == InitSource /\ [][NextSource]_vars

(***************************************************************************)
(* Properties of the VM and of the container                               *)
(***************************************************************************)
\* truncate32 as the specification defines it
Truncate32(x) == BigSub(BigMod(BigAdd(x, Pow31), Pow32), Pow31)

In32(x) == BigLe(BigNeg(Pow31), x) /\ BigLt(x, Pow31)

\* q is the floor of l / r: the remainder l - r * q lies between 0 and r
IsFloorQuotient(q, l, r) ==
    LET m == BigSub(l, BigMul(r, q))
    IN IF BigLt(Zero, r) THEN BigLe(Zero, m) /\ BigLt(m, r)
                         ELSE BigLt(r, m) /\ BigLe(m, Zero)

\* The main loop is about to fetch an instruction of the code
Fetching == status = "running" /\ ~pc.neg /\ BigLt(pc, Big(Len(code)))
Current == code[IntOf(pc) + 1]
AtOp(opcode) == Fetching /\ Current[1] = Big(opcode)
AtEval(op) == Fetching /\ Current = Ins(EVAL, Big(op))

Right == stack[Len(stack)]
Left == stack[Len(stack) - 1]

\* The step replaced the two operands by value and went on to the next
\* instruction
Pushed(value) ==
    /\ status' = "running"
    /\ stack' = Append(SubSeq(stack, 1, Len(stack) - 2), value)
    /\ pc' = BigAdd(pc, Big(1))

Text2 == <<50>>
TextMinus7Then2 == <<45, 55, 50>>
TextA == <<65>>

LoadErrors ==
    {"Invalid bytecode file: wrong magic number", "Unsupported bytecode version",
     "struct.error"}

\* C1: for every program the compiler accepts and every input text, the VM
\* running the compiled bytecode writes exactly the output that the
\* interpreter writes for the same program and the same input text.
C1_VMWritesWhatInterpreterWrites ==
    (compile_status = "written" /\ status \in {"halted", "exited", "error"}
        /\ interp_status = "done")
    => output = interp_output

\* C2: EVAL ADD and EVAL MUL push the exact sum and product; EVAL SUB, DIV and
\* MOD push their result truncated to 32 bits; (2^30 + 2^30) % 7 prints 2.
C2_AddMulExactOthersTruncated ==
    /\ [][/\ (AtEval(OP_ADD) /\ Len(stack) >= 2) => Pushed(BigAdd(Left, Right))
          /\ (AtEval(OP_MUL) /\ Len(stack) >= 2) => Pushed(BigMul(Left, Right))
          /\ (AtEval(OP_SUB) /\ Len(stack) >= 2) => Pushed(Truncate32(BigSub(Left, Right)))
          /\ (AtEval(OP_DIV) /\ Len(stack) >= 2 /\ Right # Zero)
                => Pushed(Truncate32(BigFloorDiv(Left, Right)))
          /\ (AtEval(OP_MOD) /\ Len(stack) >= 2 /\ Right # Zero)
                => Pushed(Truncate32(BigMod(Left, Right)))]_vars
    /\ []((instructions = AddModProgram /\ status \in {"halted", "exited", "error"})
             => (status = "halted" /\ output = Text2))

\* An ADD has pushed a sum that no 32-bit integer holds
C2_Witness ==
    /\ status = "running"
    /\ pc = Big(3)
    /\ code = BinaryProgram(OP_ADD)
    /\ stack # <<>>
    /\ BigLt(INT32_MAX, stack[Len(stack)])

\* C3: _to_32bit_int(x) = ((x + 2^31) mod 2^32) - 2^31: it lies in
\* [-2^31, 2^31 - 1], differs from x by a multiple of 2^32, and a second
\* application returns what the first did.
C3_To32BitIntWraps ==
    trunc_calls > 0 =>
        /\ trunc_result = Truncate32(trunc_value)
        /\ In32(trunc_result)
        /\ BigMod(BigSub(trunc_result, trunc_value), Pow32) = Zero

\* Applied twice to an integer above the 32-bit range
C3_Witness == trunc_calls = 2 /\ BigLt(Pow31, trunc_value) /\ trunc_result.neg

\* C4: PUTC pops one value, truncates it, writes one character iff the
\* truncated value is in 0..127, raises nothing and goes on to the next
\* instruction; put = 200 writes nothing.
C4_PutcGatesOnAscii ==
    /\ [][(AtOp(PUTC) /\ stack # <<>>)
            => LET t == Truncate32(Right)
               IN /\ status' = "running"
                  /\ error' = ""
                  /\ stack' = SubSeq(stack, 1, Len(stack) - 1)
                  /\ pc' = BigAdd(pc, Big(1))
                  /\ variables' = variables
                  /\ output' = IF BigLe(Zero, t) /\ BigLe(t, Big(127))
                               THEN Append(output, IntOf(t)) ELSE output]_vars
    /\ []((instructions = PutcProgram /\ all_input = TextOf(<<Big(200)>>)
             /\ status \in {"halted", "exited", "error"})
            => (status = "halted" /\ output = TextA))

\* put = 200 has been executed and wrote nothing
C4_Witness ==
    /\ code = PutcProgram
    /\ all_input = TextOf(<<Big(200)>>)
    /\ status = "running"
    /\ pc = Big(2)
    /\ stack = <<>>
    /\ output = <<>>

\* C5: EVAL DIV or MOD with right operand 0 ends the run with an error: no
\* result is pushed, nothing more is written, nothing more is executed.
C5_DivisionByZeroAborts ==
    /\ [][((AtEval(OP_DIV) \/ AtEval(OP_MOD)) /\ Len(stack) >= 2 /\ Right = Zero)
            => /\ status' = "error"
               /\ error' = "Division by zero"
               /\ stack' = SubSeq(stack, 1, Len(stack) - 2)
               /\ output' = output
               /\ variables' = variables
               /\ pc' = pc]_vars
    /\ [][status = "error" => UNCHANGED vars]_vars

\* A division by zero has ended the run before the PUTI that follows it
C5_Witness ==
    /\ status = "error"
    /\ error = "Division by zero"
    /\ code = BinaryProgram(OP_DIV)
    /\ pc = Big(2)
    /\ output = <<>>

\* C6: for 32-bit L and R, R # 0, EVAL DIV pushes truncate32(floor(L / R)) and
\* EVAL MOD pushes m with L = R * floor(L / R) + m, 0 <= m < R when R > 0;
\* write = 0 - 7; write = (0 - 7) % 3; prints -7 and then 2.
C6_FloorDivisionAndModulus ==
    /\ [][(Fetching /\ Len(stack) >= 2 /\ In32(Left) /\ In32(Right) /\ Right # Zero)
            => /\ AtEval(OP_DIV)
                    => /\ status' = "running"
                       /\ Len(stack') = Len(stack) - 1
                       /\ LET p == stack'[Len(stack')]
                          IN /\ In32(p)
                             /\ \E q \in {p, BigAdd(p, Pow32), BigSub(p, Pow32)} :
                                    IsFloorQuotient(q, Left, Right)
               /\ AtEval(OP_MOD)
                    => /\ status' = "running"
                       /\ Len(stack') = Len(stack) - 1
                       /\ LET m == stack'[Len(stack')]
                              q == BigFloorDiv(Left, Right)
                          IN /\ IsFloorQuotient(q, Left, Right)
                             /\ Left = BigAdd(BigMul(Right, q), m)
                             /\ BigLt(Zero, Right) => BigLe(Zero, m) /\ BigLt(m, Right)]_vars
    /\ []((instructions = SubModProgram /\ status \in {"halted", "exited", "error"})
             => (status = "halted" /\ output = TextMinus7Then2))

\* (0 - 7) % 3 has pushed 2
C6_Witness ==
    /\ code = BinaryProgram(OP_MOD)
    /\ all_input = TextOf(<<Big(-7), Big(3)>>)
    /\ status = "running"
    /\ pc = Big(3)
    /\ stack = <<Big(2)>>

\* C7: the instruction list returned by generate() ends with JUMP 0xFFFFFFFF
\* and holds no other JUMP with that operand; the VM executing that instruction
\* stops and leaves stack, variables and output as they were.
C7_GeneratedCodeEndsWithTheOnlyHalt ==
    /\ [](compile_status \in {"generated", "written"} =>
            /\ instructions # <<>>
            /\ instructions[Len(instructions)] = Ins(JUMP, HALT)
            /\ \A i \in 1..(Len(instructions) - 1) : instructions[i] # Ins(JUMP, HALT))
    /\ [][(Step /\ Fetching /\ Current = Ins(JUMP, HALT)) =>
             /\ status' = "halted"
             /\ stack' = stack
             /\ variables' = variables
             /\ output' = output]_vars

\* A generated program with a backward JUMP, variables and output has halted
C7_Witness ==
    /\ compile_status = "written"
    /\ status = "halted"
    /\ code = instructions
    /\ \E i \in 1..(Len(instructions) - 1) : instructions[i][1] = Big(JUMP)
    /\ variables # <<>>
    /\ output # <<>>

\* C8: load_bytecode of the bytes write_bytecode returned yields the same
\* instructions in the same order and var_count zeros.
C8_WriteLoadRoundTrip ==
    (compile_status = "written" /\ status \notin {"none", "created"})
        => /\ error \notin LoadErrors
           /\ code = instructions
           /\ Len(variables) = var_count
           /\ status = "loaded" => variables = [i \in 1..var_count |-> Zero]

\* A container with a variable slot and seven instructions has been loaded
C8_Witness ==
    /\ compile_status = "written"
    /\ status = "loaded"
    /\ var_count = 1
    /\ Len(code) = 7

\* The header of the container declares a data size that is no multiple of 4
\* or a code size that is no multiple of 8
Misaligned(f) ==
    /\ Len(f) >= 28
    /\ \/ BigMod(unpack_I(SubSeq(f, 21, 24)), Big(4)) # Zero
       \/ BigMod(unpack_I(SubSeq(f, 25, 28)), Big(8)) # Zero

\* C9: the loader rejects a container whose data_size is no multiple of 4 or
\* whose code_size is no multiple of 8; it is never loaded and run.
C9_MisalignedSizesRejected ==
    (file # None /\ Misaligned(file)) => status \in {"none", "created", "error"}

\* C10: when the program counter addresses no instruction of the code, the run
\* ends with an error, not normally and not by executing another instruction.
C10_PcOutOfRangeIsFatal ==
    [][(status = "running" /\ ~(~pc.neg /\ BigLt(pc, Big(Len(code)))))
          => status' = "error"]_vars

\* A consuming instruction is about to run on a stack too short for it
Underflow ==
    \/ (AtOp(DWRITE) \/ AtOp(PUTI) \/ AtOp(PUTC)) /\ stack = <<>>
    \/ (\E op \in BinaryOps : AtEval(op)) /\ Len(stack) < 2
    \/ AtEval(OP_COND_JUMP) /\ Len(stack) < 3

\* C11: DWRITE, PUTI or PUTC on an empty stack, a binary EVAL on fewer than 2
\* values and COND_JUMP on fewer than 3 end the run with an error; the
\* instruction removes nothing from the stack, writes no variable and no output.
C11_UnderflowAborts ==
    /\ [][Underflow => /\ status' = "error"
                       /\ stack' = stack
                       /\ variables' = variables
                       /\ output' = output]_vars
    /\ [][status = "error" => UNCHANGED <<vmVars>>]_vars

\* COND_JUMP has failed on a stack of two values, which are still there
C11_Witness ==
    /\ status = "error"
    /\ error = "IndexError"
    /\ Len(stack) = 2
    /\ code = UnderflowProgram(2, Ins(EVAL, Big(OP_COND_JUMP)))
    /\ pc = Big(2)
    /\ output = <<>>

(***************************************************************************)
(* Properties of the lexer, the parsers and the compile entry point        *)
(***************************************************************************)
\* C12: once the syntax checker has ended it has exited 0 and printed PASS
\* or ERROR, and ERROR when the source has a lexical error, wherever it is
C12_CheckerPrintsAndExitsZero ==
    check_status # "idle" =>
        /\ check_status = "exit 0"
        /\ check_output \in {"PASS\n", "ERROR\n"}
        /\ tokenize.error # "" => check_output = "ERROR\n"

\* C13: the syntax checker reports PASS for exactly the sources that the
\* compiler's parser accepts, those with an empty pair of braces included
C13_ParsersAcceptTheSameSources ==
    check_status # "idle" =>
        (check_output = "PASS\n" <=> ASTParser_parse.error = "")

\* The levels of the operators, lowest first: equality, comparison,
\* additive, multiplicative
Precedence ==
    ("==" :> 1) @@ ("!=" :> 1) @@ (">" :> 2) @@ ("<" :> 2) @@ (">=" :> 2) @@ ("<=" :> 2)
    @@ ("+" :> 3) @@ ("-" :> 3) @@ ("*" :> 4) @@ ("/" :> 4) @@ ("%" :> 4)

\* x = (a op1 b) op2 c
LeftNested(op1, op2) ==
    Program(<<Let("x", BinaryOp(BinaryOp(Var("a"), op1, Var("b")), op2, Var("c")))>>)

\* x = a op1 (b op2 c)
RightNested(op1, op2) ==
    Program(<<Let("x", BinaryOp(Var("a"), op1, BinaryOp(Var("b"), op2, Var("c"))))>>)

Parsed == compile_status \in {"parsed", "generated", "written"}

\* Each source of the three shapes with the tree that the levels give it
ExpressionCases ==
    UNION { { <<ExpressionSource(op1, op2),
                IF Precedence[op2] > Precedence[op1] THEN RightNested(op1, op2)
                                                     ELSE LeftNested(op1, op2)>>,
              <<LeftGroupedSource(op1, op2), LeftNested(op1, op2)>>,
              <<RightGroupedSource(op1, op2), RightNested(op1, op2)>> } :
            op1 \in DOMAIN Precedence, op2 \in DOMAIN Precedence }

\* C14: a op1 b op2 c parses as (a op1 b) op2 c unless op2 is of a higher
\* level than op1, and then as a op1 (b op2 c); parentheses override both
C14_PrecedenceAndLeftAssociativity ==
    \A case \in ExpressionCases :
        source = case[1] => /\ compile_status # "error"
                            /\ Parsed => ast = case[2]

\* x=a-b-c; and x=a==b<c; have been parsed
C14_Witness ==
    /\ compile_status = "parsed"
    /\ \/ source = ExpressionSource("-", "-") /\ ast = LeftNested("-", "-")
       \/ source = ExpressionSource("==", "<") /\ ast = RightNested("==", "<")

\* x = write;   put = put;   a = put + 1;
OutputAsValueSources ==
    { Src(<<"x", " ", "=", " ", "w", "r", "i", "t", "e", ";">>),
      Src(<<"p", "u", "t", " ", "=", " ", "p", "u", "t", ";">>),
      Src(<<"a", " ", "=", " ", "p", "u", "t", " ", "+", " ", "1", ";">>) }

\* Lexing, parsing, code generation and serialisation of source all succeed
AllStagesSucceed ==
    /\ tokenize.error = ""
    /\ LET parser == ASTParser_parse
       IN /\ parser.error = ""
          /\ LET generator == generate(parser.node)
             IN /\ generator.error = ""
                /\ write_bytecode(generator.instructions, generator.var_count) # None

\* C15: bytecode is on standard output only when all four stages have
\* succeeded, and it is written by the one step that ends the compilation;
\* after an error nothing has been written; a source with write or put as a
\* value never gets bytecode
C15_BytecodeOnlyAfterSuccess ==
    /\ [](file # None => compile_status = "written" /\ AllStagesSucceed)
    /\ [](compile_status = "error" => file = None)
    /\ [](source \in OutputAsValueSources => file = None)
    /\ [][file' # file => compile_status = "generated" /\ compile_status' = "written"]_vars
    /\ [][compile_status = "error" => compile_status' = "error" /\ file' = file]_vars

\* x = write; has been rejected by the code generator
C15_Witness ==
    /\ source = Src(<<"x", " ", "=", " ", "w", "r", "i", "t", "e", ";">>)
    /\ compile_status = "error"
    /\ ASTParser_parse.error = ""
    /\ file = None

\* The source has a character above U+007F between two single quotes
HasWideCharacterLiteral ==
    \E i \in 1..Len(source) :
        /\ i + 2 <= Len(source)
        /\ source[i] = 39 /\ source[i + 1] > 127 /\ source[i + 2] = 39

\* C16: the lexer ends with a lexical error on a source with a character
\* literal whose character is above U+007F, and yields no token for it
C16_WideCharacterLiteralRejected ==
    tokens # NotTokenized /\ HasWideCharacterLiteral =>
        /\ tokens.error # ""
        /\ \A i \in 1..Len(tokens.tokens) :
              tokens.tokens[i][1] = "literal" => BigLe(int16(tokens.tokens[i][2]), Big(127))

(***************************************************************************)
(* Properties of generated code on the VM                                  *)
(***************************************************************************)
\* The opcodes whose instruction leaves one more value on the stack
Pushing(instruction) ==
    \/ instruction[1] \in {Big(DSTORE), Big(DLOAD), Big(GETI), Big(GETC)}
    \/ instruction[1] = Big(EVAL) /\ instruction[2] # Big(OP_COND_JUMP)

Generated == compile_status \in {"generated", "written"}

\* The VM runs the instructions that the code generator made
RunningGenerated == Generated /\ code = instructions /\ status = "running"

\* C17: the step at EVAL COND_JUMP removes three values and goes to the
\* second from the top / 8 when the third is non-zero, to the top / 8 when
\* it is zero; the generator puts DSTORE then-address, DSTORE else-address
\* after the condition's code and before each COND_JUMP, and so the VM finds
\* these two addresses on top of the condition
C17_CondJumpTakesElseThenCondition ==
    /\ [][(Step /\ AtEval(OP_COND_JUMP) /\ Len(stack) >= 3) =>
             /\ stack' = SubSeq(stack, 1, Len(stack) - 3)
             /\ status' = "running"
             /\ pc' = BigFloorDiv(IF stack[Len(stack) - 2] # Zero THEN Left ELSE Right,
                                  Big(8))
             /\ UNCHANGED <<variables, output, input_pos, char_pos>>]_vars
    /\ [](Generated =>
            \A i \in 1..Len(instructions) :
                instructions[i] = Ins(EVAL, Big(OP_COND_JUMP)) =>
                    /\ i > 3
                    /\ Pushing(instructions[i - 3])
                    /\ instructions[i - 2] = Ins(DSTORE, Big(8 * i))
                    /\ instructions[i - 1][1] = Big(DSTORE)
                    /\ \E j \in (i + 1)..Len(instructions) :
                          instructions[i - 1][2] = Big(8 * (j - 1)))
    /\ []((RunningGenerated /\ AtEval(OP_COND_JUMP)) =>
            /\ Len(stack) >= 3
            /\ Right = code[IntOf(pc)][2]
            /\ Left = code[IntOf(pc) - 1][2])

\* Branch with input -5: the conditional jump has gone to the else part
C17_Witness ==
    /\ RunningGenerated
    /\ all_input = <<45, 53>>
    /\ Len(code) = 14
    /\ code[7] = Ins(DSTORE, Big(88))
    /\ code[8] = Ins(EVAL, Big(OP_COND_JUMP))
    /\ pc = Big(11)
    /\ stack = <<>>
    /\ output = <<>>

\* The numeric whitespace-delimited tokens of the input, in order
NumericTokens == SelectSeq(Split(all_input), IsIntToken)

\* The k-th numeric token as an integer, 0 after the end
KthInteger(k) == IF k <= Len(NumericTokens) THEN ParseInt(NumericTokens[k]) ELSE Zero

\* The k-th character of the input, 0 after the end
KthCharacter(k) == IF k <= Len(all_input) THEN Big(all_input[k]) ELSE Zero

\* How many numeric tokens lie before the token cursor at pos
IntegersBefore(pos) == Len(SelectSeq(SubSeq(input_tokens, 1, pos), IsIntToken))

\* What PUTC writes for the value
PutcText(value) ==
    IF BigLe(Zero, value) /\ BigLe(value, Big(127)) THEN <<IntOf(value)>> ELSE <<>>

\* C18: GETI pushes the first numeric token not yet returned (0 after the
\* end), passes the token cursor beyond it and leaves the character cursor;
\* GETC pushes the character at the character cursor (0 after the end), moves
\* that cursor by one and leaves the token cursor; no other instruction moves
\* either.  So the programs that read and get in turn obtain the first and
\* the second integer and the first and the second character of the input.
C18_IndependentCursors ==
    /\ [][(Step /\ AtOp(GETI)) =>
             /\ stack' = Append(stack, KthInteger(IntegersBefore(input_pos) + 1))
             /\ IntegersBefore(input_pos') =
                    IF IntegersBefore(input_pos) < Len(NumericTokens)
                    THEN IntegersBefore(input_pos) + 1 ELSE Len(NumericTokens)
             /\ char_pos' = char_pos]_vars
    /\ [][(Step /\ AtOp(GETC)) =>
             /\ stack' = Append(stack, KthCharacter(char_pos + 1))
             /\ char_pos' = IF char_pos < Len(all_input) THEN char_pos + 1 ELSE char_pos
             /\ input_pos' = input_pos]_vars
    /\ [][(Step /\ ~AtOp(GETI)) => input_pos' = input_pos]_vars
    /\ [][(Step /\ ~AtOp(GETC)) => char_pos' = char_pos]_vars
    /\ []((status = "halted" /\ ast = Programs[21]) =>
            output = Decimal(KthInteger(1)) \o Decimal(KthInteger(2))
                     \o PutcText(KthCharacter(1)) \o PutcText(KthCharacter(2)))
    /\ []((status = "halted" /\ ast = Programs[9]) =>
            output = Decimal(KthInteger(1)) \o PutcText(KthCharacter(1)))

\* a = read; b = get; c = read; d = get; ... on "5 7 3": 5 and 7, "5" and " "
C18_Witness ==
    /\ ast = Programs[21]
    /\ all_input = <<53, 32, 55, 32, 51>>
    /\ status = "halted"
    /\ input_pos = 2
    /\ char_pos = 2
    /\ output = <<53, 55, 53, 32>>

\* The statements of the program that are ifs, by their place in the program
TopLevelIfs == { k \in 1..Len(ast.statements) : ast.statements[k].type = "IfStatement" }

\* Where the code of the k-th statement, an if, lies in the instruction
\* list, as indices from 0: its conditional jump, the code of the then part
\* from then_start up to then_end, that of the else part from else_start up
\* to end, and end, the first instruction after the statement
IfLayout(k) ==
    LET node == ast.statements[k]
        before == visit_statements(CodeGenerator, SubSeq(ast.statements, 1, k - 1), 1)
        c == visit(before, node.condition)
        t == visit_statements(emit_branch(c), node.then_statements, 1)
        has_else == Truthy(node.else_statements)
        e == visit_statements(emit(t, JUMP, Zero), node.else_statements, 1)
    IN [cond_jump |-> Len(c.instructions) + 2,
        then_start |-> Len(c.instructions) + 3,
        then_end |-> Len(t.instructions),
        has_else |-> has_else,
        else_start |-> IF has_else THEN Len(t.instructions) + 1 ELSE Len(t.instructions),
        end |-> IF has_else THEN Len(e.instructions) ELSE Len(t.instructions)]

\* The then part, with the JUMP that ends it when there is an else part
InThen(l, i) == l.then_start <= i /\ (i < l.then_end \/ (l.has_else /\ i = l.then_end))

InElse(l, i) == l.has_else /\ l.else_start <= i /\ i < l.end

\* C19: at the conditional jump of an if the VM goes to the then part when
\* the condition is non-zero and else to the else part, which is the first
\* instruction after the statement when there is no else; the then part is
\* entered from that jump only and with a non-zero condition, the else part
\* from that jump only and with a zero condition; from inside a part the VM
\* stays in it or leaves it to the first instruction after the statement.
\* Branch prints 1 for a positive integer read and 0 otherwise.
C19_IfRunsOneBodyThenGoesOn ==
    /\ [][(Step /\ RunningGenerated /\ Fetching) =>
             \A k \in TopLevelIfs :
                LET l == IfLayout(k)
                    from == IntOf(pc)
                    to == IntOf(pc')
                    nonzero == stack[Len(stack) - 2] # Zero
                IN /\ from = l.cond_jump =>
                         /\ Current = Ins(EVAL, Big(OP_COND_JUMP))
                         /\ to = IF nonzero THEN l.then_start ELSE l.else_start
                         /\ ~l.has_else /\ ~nonzero => to = l.end
                   /\ (InThen(l, to) /\ ~InThen(l, from)) => from = l.cond_jump /\ nonzero
                   /\ (InElse(l, to) /\ ~InElse(l, from)) => from = l.cond_jump /\ ~nonzero
                   /\ InThen(l, from) => InThen(l, to) \/ to = l.end
                   /\ InElse(l, from) => InElse(l, to) \/ to = l.end]_vars
    /\ []((status = "halted" /\ ast = Programs[19]) =>
            output = IF BigLt(Zero, KthInteger(1)) THEN <<49>> ELSE <<48>>)

\* Branch on the input 5: the then part has written 1, the else part has
\* been passed over and the VM is at the first instruction after the if
C19_Witness ==
    /\ RunningGenerated
    /\ ast = Programs[19]
    /\ all_input = <<53>>
    /\ TopLevelIfs = {2}
    /\ pc = Big(IfLayout(2).end)
    /\ output = <<49>>

\* The statements of the program that are whiles, by their place in the program
TopLevelWhiles ==
    { k \in 1..Len(ast.statements) : ast.statements[k].type = "WhileStatement" }

\* Where the code of the k-th statement, a while, lies in the instruction
\* list, as indices from 0: the condition's code from loop_start, the
\* conditional jump, the body from body_start, the JUMP back after the body
\* and end, the first instruction after that JUMP
WhileLayout(k) ==
    LET node == ast.statements[k]
        before == visit_statements(CodeGenerator, SubSeq(ast.statements, 1, k - 1), 1)
        c == visit(before, node.condition)
        s == visit_statements(emit_branch(c), node.body_statements, 1)
    IN [loop_start |-> Len(before.instructions),
        cond_jump |-> Len(c.instructions) + 2,
        body_start |-> Len(c.instructions) + 3,
        back_jump |-> Len(s.instructions),
        end |-> Len(s.instructions) + 1]

\* The body with the JUMP back
InBody(l, i) == l.body_start <= i /\ i <= l.back_jump

\* The code of the condition with the conditional jump
InCondition(l, i) == l.loop_start <= i /\ i <= l.cond_jump

\* C20: the JUMP after the body of a while goes to loop-start, where the
\* condition is evaluated; the conditional jump goes to the body when the
\* condition is non-zero and else to the instruction after the JUMP back;
\* the body is entered from the conditional jump only, and left to
\* loop-start only; the loop is left from the conditional jump only.  The
\* Loop program halts having printed 55.
C20_WhileReevaluatesThenLeaves ==
    /\ [][(Step /\ RunningGenerated /\ Fetching) =>
             \A k \in TopLevelWhiles :
                LET l == WhileLayout(k)
                    from == IntOf(pc)
                    to == IntOf(pc')
                    nonzero == stack[Len(stack) - 2] # Zero
                IN /\ from = l.back_jump =>
                         /\ Current = Ins(JUMP, Big(8 * l.loop_start))
                         /\ to = l.loop_start
                   /\ from = l.cond_jump =>
                         /\ Current = Ins(EVAL, Big(OP_COND_JUMP))
                         /\ to = IF nonzero THEN l.body_start ELSE l.end
                   /\ (InBody(l, to) /\ ~InBody(l, from)) => from = l.cond_jump /\ nonzero
                   /\ (InBody(l, from) /\ ~InBody(l, to)) =>
                         from = l.back_jump /\ to = l.loop_start
                   /\ (InCondition(l, from) /\ ~InCondition(l, to)) => from = l.cond_jump
                   /\ ((InCondition(l, from) \/ InBody(l, from)) /\ to = l.end) =>
                         from = l.cond_jump /\ ~nonzero]_vars
    /\ []((status = "halted" /\ ast = Programs[20]) => output = <<53, 53>>)
    /\ [](StepEnabled /\ RunningGenerated => run_iteration(Machine) # Machine)
    /\ ((status = "loaded" /\ ast = Programs[20]) ~> status = "halted")

\* Loop has halted after ten turns, with 55 written
C20_Witness ==
    /\ ast = Programs[20]
    /\ code = instructions
    /\ status = "halted"
    /\ variables = <<Big(11), Big(55)>>
    /\ output = <<53, 53>>

(***************************************************************************)
(* Properties of the instruction list and the variable table               *)
(***************************************************************************)
\* How many instructions the code of a node takes
CodeSize(node) == Len(visit(CodeGenerator, node).instructions)

\* Where the statements of a list begin, the list beginning at index at (from
\* 0): the i-th entry is the index of the first instruction of the i-th
\* statement, and the entry after the last is the index after the list
RECURSIVE Starts(_, _)
Starts(statements, at) ==
    IF statements = <<>> THEN <<at>>
    ELSE <<at>> \o Starts(Tail(statements), at + CodeSize(Head(statements)))

\* The indices (from 0) of the instructions that the generator emits with
\* the operand 0 in order to patch it later, in the code of a statement that
\* begins at index at: the two DSTOREs after the condition of an if or a
\* while, and the JUMP between the then part and the else part
RECURSIVE PatchSlots(_, _), PatchSlotsOfList(_, _)
PatchSlots(node, at) ==
    IF node.type = "IfStatement"
    THEN LET then_addr_pos == at + CodeSize(node.condition)
             then_starts == Starts(node.then_statements, then_addr_pos + 3)
             jump_to_end == then_starts[Len(then_starts)]
         IN {then_addr_pos, then_addr_pos + 1}
            \cup PatchSlotsOfList(node.then_statements, then_starts)
            \cup IF Truthy(node.else_statements)
                 THEN {jump_to_end}
                      \cup PatchSlotsOfList(node.else_statements,
                                            Starts(node.else_statements, jump_to_end + 1))
                 ELSE {}
    ELSE IF node.type = "WhileStatement"
    THEN LET then_addr_pos == at + CodeSize(node.condition)
         IN {then_addr_pos, then_addr_pos + 1}
            \cup PatchSlotsOfList(node.body_statements,
                                  Starts(node.body_statements, then_addr_pos + 3))
    ELSE {}

PatchSlotsOfList(statements, starts) ==
    UNION { PatchSlots(statements[i], starts[i]) : i \in 1..Len(statements) }

\* The patch slots of each program of Programs
ProgramPatchSlots ==
    [p \in 1..Len(Programs) |->
        PatchSlotsOfList(Programs[p].statements, Starts(Programs[p].statements, 0))]

\* The program being compiled, by its place in Programs
ProgramIndex == CHOOSE p \in 1..Len(Programs) : Programs[p] = ast

\* C21: in the instruction list that generate() returned, every patch slot
\* of every if and while, at any depth, is the DSTORE or JUMP it was emitted
\* as and no longer carries the placeholder operand 0; the patched DSTOREs
\* are exactly the two instructions before each COND_JUMP.
C21_NoPlaceholderInPatchSlots ==
    Generated =>
        LET slots == ProgramPatchSlots[ProgramIndex]
        IN /\ \A i \in slots :
                 /\ i < Len(instructions)
                 /\ instructions[i + 1][1] \in {Big(DSTORE), Big(JUMP)}
                 /\ instructions[i + 1][2] # Zero
           /\ { i \in slots : instructions[i + 1][1] = Big(DSTORE) }
                = UNION { {j - 3, j - 2} : j \in { k \in 1..Len(instructions) :
                                    instructions[k] = Ins(EVAL, Big(OP_COND_JUMP)) } }

\* Nested has been generated: seven conditional jumps and so fourteen patched
\* DSTOREs, and the three JUMPs over its else parts
C21_Witness ==
    /\ compile_status = "generated"
    /\ ast = Programs[22]
    /\ Cardinality(ProgramPatchSlots[22]) = 17
    /\ { i \in ProgramPatchSlots[22] : instructions[i + 1][1] = Big(JUMP) } = {37, 51, 60}
    /\ instructions[38] = Ins(JUMP, Big(368))

\* The byte offset of one of the n instructions of the code
IsCodeAddress(operand, n) == \E j \in 0..(n - 1) : operand = Big(8 * j)

\* C22: in the instruction list that generate() returned, the two
\* instructions before every EVAL COND_JUMP are DSTOREs whose operands are
\* byte offsets of instructions of the list (multiples of 8 from 0 and below
\* 8 * len), and so is the operand of every JUMP but the closing one.
C22_JumpOperandsAreCodeAddresses ==
    Generated =>
        LET n == Len(instructions)
        IN /\ \A i \in 1..n :
                 instructions[i] = Ins(EVAL, Big(OP_COND_JUMP)) =>
                     /\ i > 2
                     /\ instructions[i - 2][1] = Big(DSTORE)
                     /\ instructions[i - 1][1] = Big(DSTORE)
                     /\ IsCodeAddress(instructions[i - 2][2], n)
                     /\ IsCodeAddress(instructions[i - 1][2], n)
           /\ \A i \in 1..(n - 1) :
                 instructions[i][1] = Big(JUMP) => IsCodeAddress(instructions[i][2], n)

\* The countdown program has been generated: its while is the last
\* statement, so the else-address of its conditional jump is that of the
\* closing JUMP, the last instruction, and the JUMP after its body goes back
\* to the third instruction
C22_Witness ==
    /\ compile_status = "generated"
    /\ ast = Programs[10]
    /\ Len(instructions) = 16
    /\ instructions[8] = Ins(EVAL, Big(OP_COND_JUMP))
    /\ instructions[6] = Ins(DSTORE, Big(8 * 8))
    /\ instructions[7] = Ins(DSTORE, Big(8 * 15))
    /\ instructions[15] = Ins(JUMP, Big(8 * 2))

\* The identifiers of a tree in the order of a walk that goes through the
\* statements, and through the operands of an operation, from left to right,
\* and in an assignment takes the lvalue before the expression when
\* lvalue_first and after it otherwise
RECURSIVE Walk(_, _), WalkList(_, _)
Walk(node, lvalue_first) ==
    IF node.type = "Program" THEN WalkList(node.statements, lvalue_first)
    ELSE IF node.type = "AssignmentStatement"
    THEN IF lvalue_first
         THEN Walk(node.lvalue, lvalue_first) \o Walk(node.expression, lvalue_first)
         ELSE Walk(node.expression, lvalue_first) \o Walk(node.lvalue, lvalue_first)
    ELSE IF node.type = "IfStatement"
    THEN Walk(node.condition, lvalue_first) \o WalkList(node.then_statements, lvalue_first)
         \o IF Truthy(node.else_statements)
            THEN WalkList(node.else_statements, lvalue_first) ELSE <<>>
    ELSE IF node.type = "WhileStatement"
    THEN Walk(node.condition, lvalue_first) \o WalkList(node.body_statements, lvalue_first)
    ELSE IF node.type = "BinaryOp"
    THEN Walk(node.left, lvalue_first) \o Walk(node.right, lvalue_first)
    ELSE IF node.type = "Identifier" THEN <<node.name>>
    ELSE <<>>

WalkList(statements, lvalue_first) ==
    IF statements = <<>> THEN <<>>
    ELSE Walk(Head(statements), lvalue_first) \o WalkList(Tail(statements), lvalue_first)

\* The names of a sequence without the repetitions, each at its first place
RECURSIVE FirstSeen(_)
FirstSeen(names) ==
    IF names = <<>> THEN <<>>
    ELSE LET before == FirstSeen(SubSeq(names, 1, Len(names) - 1))
             last == names[Len(names)]
         IN IF \E i \in 1..Len(before) : before[i] = last THEN before
            ELSE Append(before, last)

\* The table that gives the names of a sequence the indices 0, 1, ... in turn
Numbered(names) ==
    [name \in { names[i] : i \in 1..Len(names) } |->
        (CHOOSE i \in 1..Len(names) : names[i] = name) - 1]

\* The variable table of each program of Programs after generate()
ProgramVarTable == [p \in 1..Len(Programs) |-> generate(Programs[p]).var_table]

\* C23 as stated: the variable table numbers the names in first-seen order
\* of a walk that visits the lvalue of an assignment before its expression,
\* so that a = b; gives a the index 0 and b the index 1.
C23_LvalueNumberedBeforeExpression ==
    Generated =>
        /\ ProgramVarTable[ProgramIndex] = Numbered(FirstSeen(Walk(ast, TRUE)))
        /\ ast = Programs[23] =>
              instructions[2] = Ins(DWRITE, Zero) /\ instructions[1] = Ins(DLOAD, Big(1))

\* C23: the variable table numbers the names in first-seen order of the walk
\* that generate() makes, which goes through statements and operands from
\* left to right and visits the expression of an assignment before its
\* lvalue: a = b; gives b the index 0 and a the index 1.
C23_ExpressionNumberedBeforeLvalue ==
    Generated =>
        /\ ProgramVarTable[ProgramIndex] = Numbered(FirstSeen(Walk(ast, FALSE)))
        /\ var_count = Len(FirstSeen(Walk(ast, FALSE)))
        /\ ast = Programs[23] =>
              instructions[1] = Ins(DLOAD, Zero) /\ instructions[2] = Ins(DWRITE, Big(1))

\* a = b; write = a; write = b; has been generated: b is loaded from slot 0
\* and a is written to slot 1
C23_Witness ==
    /\ compile_status = "generated"
    /\ ast = Programs[23]
    /\ var_count = 2
    /\ ProgramVarTable[23] = ("b" :> 0) @@ ("a" :> 1)
    /\ SubSeq(instructions, 1, 2) = <<Ins(DLOAD, Zero), Ins(DWRITE, Big(1))>>

\* The operands of the DLOADs and DWRITEs of an instruction list
VariableOperands(ins) ==
    { ins[i][2] : i \in { k \in 1..Len(ins) : ins[k][1] \in {Big(DLOAD), Big(DWRITE)} } }

\* C24: after generate() the variable table takes the identifier names of
\* the program one-to-one onto 0..var_count-1; the operands of the DLOADs and
\* DWRITEs emitted are exactly these indices; the VM that has loaded the
\* written file has var_count slots, and so every DLOAD and DWRITE it comes
\* to addresses one of them and no IndexError ends the run.
C24_VariableIndicesDenseAndInRange ==
    /\ Generated =>
          LET table == ProgramVarTable[ProgramIndex]
              names == Walk(ast, FALSE)
          IN /\ DOMAIN table = { names[i] : i \in 1..Len(names) }
             /\ \A a, b \in DOMAIN table : table[a] = table[b] => a = b
             /\ { table[a] : a \in DOMAIN table } = 0..(var_count - 1)
             /\ VariableOperands(instructions) = { Big(k) : k \in 0..(var_count - 1) }
    /\ (Generated /\ code = instructions /\ status # "none") =>
          /\ Len(variables) = var_count
          /\ error # "IndexError"
          /\ (AtOp(DLOAD) \/ AtOp(DWRITE)) =>
                ~Current[2].neg /\ BigLt(Current[2], Big(Len(variables)))

\* Nested runs on the input 3 and is about to write m, the variable of the
\* highest index, which three names of the tree share with n
C24_Witness ==
    /\ RunningGenerated
    /\ ast = Programs[22]
    /\ all_input = <<51>>
    /\ var_count = 2
    /\ Len(Walk(ast, FALSE)) > 2
    /\ AtOp(DWRITE)
    /\ Current[2] = Big(1)
    /\ stack = <<Big(3)>>

\* C25: every slot of the VM's variables holds a value from -2^31 up to
\* 2^31 - 1; load_bytecode makes the slots, all 0; a turn of run()'s loop
\* changes the variables only at a DWRITE, which puts the 32-bit wrap of the
\* value on top of the stack into the slot its operand names and leaves the
\* other slots as they were; nothing else changes them.
C25_VariableSlotsHold32BitValues ==
    /\ [](\A i \in 1..Len(variables) : In32(variables[i]))
    /\ [][LoadBytecode => \A i \in 1..Len(variables') : variables'[i] = Zero]_vars
    /\ [][Step =>
            IF AtOp(DWRITE) /\ stack # <<>> /\ PyIndex(Current[2], Len(variables)) # 0
            THEN variables' = [variables EXCEPT ![PyIndex(Current[2], Len(variables))] =
                                                    Truncate32(Right)]
            ELSE variables' = variables]_vars
    /\ [][~(Step \/ LoadBytecode \/ NewVM) => variables' = variables]_vars

\* a = read + read; b = 4294967295; ... on the input 2147483647 1: the sum
\* 2^31 was on the stack and a holds -2^31; 4294967295 is on the stack and
\* about to be written to b
C25_Witness ==
    /\ RunningGenerated
    /\ ast = Programs[24]
    /\ variables = <<BigNeg(Pow31), Zero>>
    /\ AtOp(DWRITE)
    /\ Current[2] = Big(1)
    /\ stack = <<HALT>>
    /\ ~In32(Right)

\* C26: every instruction that generate() returned has an opcode and an
\* operand from 0 up to 2^32 - 1, whatever the size of the integer literals
\* that the lexer accepted in the source.
C26_InstructionsFitIn32Bits ==
    Generated =>
        \A i \in 1..Len(instructions) :
            IsU32(instructions[i][1]) /\ IsU32(instructions[i][2])

(***************************************************************************)
(* Properties of the runs of generated code                                *)
(***************************************************************************)
\* The indices (from 0) of the first instructions of the statements of a
\* list and of the statements inside them, at any depth; starts are the
\* places of the statements of the list
RECURSIVE StatementStarts(_, _)
StatementStarts(statements, starts) ==
    UNION { LET node == statements[i]
                after_condition == starts[i] + CodeSize(node.condition) + 3
            IN {starts[i]} \cup
               IF node.type = "IfStatement"
               THEN LET then_starts == Starts(node.then_statements, after_condition)
                    IN StatementStarts(node.then_statements, then_starts)
                       \cup IF Truthy(node.else_statements)
                            THEN StatementStarts(
                                     node.else_statements,
                                     Starts(node.else_statements,
                                            then_starts[Len(then_starts)] + 1))
                            ELSE {}
               ELSE IF node.type = "WhileStatement"
               THEN StatementStarts(node.body_statements,
                                    Starts(node.body_statements, after_condition))
               ELSE {}
          : i \in 1..Len(statements) }

\* The statement starts of each program of Programs
ProgramStatementStarts ==
    [p \in 1..Len(Programs) |->
        StatementStarts(Programs[p].statements, Starts(Programs[p].statements, 0))]

\* How many values the handler of an instruction takes from the stack
Takes(instruction) ==
    IF instruction[1] \in {Big(DWRITE), Big(PUTI), Big(PUTC)} THEN 1
    ELSE IF instruction = Ins(EVAL, Big(OP_COND_JUMP)) THEN 3
    ELSE IF instruction[1] = Big(EVAL) THEN 2
    ELSE 0

\* C27: the VM that runs generated code finds on the stack, at every
\* instruction, the values that the instruction takes, so that no handler
\* fails on a short stack; the stack is empty whenever the VM is at the first
\* instruction of a statement, at any depth, and when it executes the closing
\* JUMP, and so after it has halted.
C27_StackBalancedPerStatement ==
    /\ (RunningGenerated /\ Fetching) =>
          /\ Takes(Current) <= Len(stack)
          /\ IntOf(pc) \in ProgramStatementStarts[ProgramIndex] => stack = <<>>
          /\ Current = Ins(JUMP, HALT) => stack = <<>>
    /\ (Generated /\ code = instructions) =>
          /\ error # "IndexError"
          /\ status = "halted" => stack = <<>>

\* Nested on the input 3 is at put = 'x'; in the innermost loop for the
\* second time, with an empty stack
C27_Witness ==
    /\ RunningGenerated
    /\ ast = Programs[22]
    /\ all_input = <<51>>
    /\ 30 \in ProgramStatementStarts[22]
    /\ pc = Big(30)
    /\ output = <<120>>
    /\ stack = <<>>

KnownOpcodes ==
    { Big(NOP), Big(DSTORE), Big(DLOAD), Big(DWRITE), Big(EVAL), Big(JUMP), Big(GETI),
      Big(GETC), Big(PUTI), Big(PUTC) }

KnownEvalOperands ==
    { Big(OP_ADD), Big(OP_SUB), Big(OP_MUL), Big(OP_DIV), Big(OP_MOD), Big(OP_GT),
      Big(OP_LT), Big(OP_GE), Big(OP_LE), Big(OP_EQ), Big(OP_NE), Big(OP_COND_JUMP) }

\* C28: while the VM runs generated code its pc is the index of an
\* instruction of the code, whose opcode, and whose operand if it is an EVAL,
\* the VM knows; run() never ends because pc has passed the end of the code,
\* and it ends without an exception only at the closing JUMP 0xFFFFFFFF, the
\* last instruction.
C28_PcStaysInGeneratedCode ==
    /\ [](RunningGenerated =>
            /\ Fetching
            /\ Current[1] \in KnownOpcodes
            /\ Current[1] = Big(EVAL) => Current[2] \in KnownEvalOperands)
    /\ []((Generated /\ code = instructions) =>
            /\ status # "exited"
            /\ error \notin {"Unknown opcode", "Unknown eval operand", "IndexError"})
    /\ [][(Step /\ RunningGenerated /\ status' # "running") =>
             \/ status' = "error"
             \/ /\ status' = "halted"
                /\ Current = Ins(JUMP, HALT)
                /\ pc = Big(Len(code) - 1)]_vars

\* The countdown program on the input 3 has written 3, 2, 1, left its loop
\* through the conditional jump to the closing JUMP and halted there
C28_Witness ==
    /\ Generated
    /\ code = instructions
    /\ ast = Programs[10]
    /\ status = "halted"
    /\ pc = Big(Len(code) - 1)
    /\ code[Len(code) - 9][2] = Big(8 * (Len(code) - 1))
    /\ output = <<51, 50, 49>>

(***************************************************************************)
(* Properties of execute_eval, the method kept beside execute_eval_optimized *)
(***************************************************************************)
\* execute_eval and execute_eval_optimized, applied to the running VM with
\* an operand, end alike: the same stack and pc, both with an exception or
\* both without, and with the same exception unless it is that of a short
\* stack, which is an IndexError in the one and an Exception in the other
EvalsAgree(operand) ==
    LET kept == execute_eval(Machine, operand)
        optimized == execute_eval_optimized(Machine, operand)
        enough == Len(stack) >= (IF operand = Big(OP_COND_JUMP) THEN 3 ELSE 2)
    IN /\ kept.stack = optimized.stack
       /\ kept.pc = optimized.pc
       /\ kept.status = optimized.status
       /\ kept.variables = optimized.variables /\ kept.output = optimized.output
       /\ enough => kept.error = optimized.error
       /\ ~enough => /\ kept.status = "error" /\ optimized.status = "error"
                     /\ kept.stack = stack /\ optimized.stack = stack
                     /\ kept.pc = pc /\ optimized.pc = pc

\* C29: on the stack of every state of a run, and for each of the twelve
\* EVAL operands, execute_eval and execute_eval_optimized leave the same
\* stack and the same pc, a MUL with an operand 0 or 1 included; on a stack
\* too short for the operand both raise and leave the stack as it was.
C29_EvalVariantsAgree ==
    status = "running" => \A operand \in KnownEvalOperands : EvalsAgree(operand)

\* The VM is at a MUL with 1 and 2^31 - 1 on the stack, where
\* execute_eval_optimized answers the right operand without multiplying and
\* execute_eval multiplies
C29_Witness ==
    /\ AtEval(OP_MUL)
    /\ stack = <<Big(1), INT32_MAX>>
    /\ execute_eval(Machine, Big(OP_MUL)).stack = <<INT32_MAX>>
    /\ execute_eval(Machine, Big(OP_COND_JUMP)).error = "Stack underflow in conditional jump"

====
